---- MODULE Spec2Model ----
(***************************************************************************)
(* Model of the two Quapp command line tools:                              *)
(*   quapp         argument parser (lib/args.js), entry point              *)
(*                 (bin/quapp.js) and the serve / build / init handlers    *)
(*   create-quapp  argument parser (lib/args.js), entry point (index.js)   *)
(*                 and the scaffold handler                                *)
(* One behaviour of the model is one process run: the token sequence is    *)
(* chosen in Init, the parser consumes it one loop iteration per step,     *)
(* main routes to a handler and the run ends with process.exit.            *)
(*                                                                         *)
(* JavaScript values: null / undefined are the empty tuple <<>> and a      *)
(* present value v of a nullable field is <<v>>.  Objects are records      *)
(* whose DOMAIN is the set of keys the code writes.  Interpolated message  *)
(* strings are records of their fixed text and the interpolated values.    *)
(***************************************************************************)
EXTENDS Integers, Sequences, FiniteSets, TLC

VARIABLES
  prog,       \* which program runs: "quapp", "quappLegacy" or "create"
  argv,       \* process.argv.slice(2)
  i,          \* the parser's cursor (0-based)
  args,       \* the parser's accumulator / the parsed result
  pc,         \* position of the run
  logger,     \* module state of lib/logger.js: jsonMode, verboseMode, logs
  stdout,     \* chunks written to standard output, in order
  stderr,     \* chunks written to standard error, in order
  calls,      \* handler invocations made by main: handler name and options
  config,     \* scaffold's working configuration between its awaits
  result,     \* the Command Result the handler returned (<<>>: none yet)
  exitCode,   \* argument of process.exit (<<>>: still running)
  disk,       \* what the handler finds in the working directory
  effects,    \* side effects performed: files written, processes spawned
  cancelled   \* the user declined or cancelled a prompt, or interrupted

vars == <<prog, argv, i, args, pc, logger, stdout, stderr, calls, config,
          result, exitCode, disk, effects, cancelled>>

null == <<>>
Some(v) == <<v>>

\* Longest token sequence drawn exhaustively from the alphabets.
MaxLen == 3

(***************************************************************************)
(* Token alphabets.  A token is a string; the string functions the parsers *)
(* use (startsWith, parseInt, truthiness) are tabulated over the alphabet. *)
(***************************************************************************)
QuappFlagTokens ==
  {"-h", "--help", "-v", "--version", "--json", "--verbose", "--no-color",
   "-p", "--port", "--host", "--no-qr", "--open", "--https",
   "-o", "--output", "--no-clean", "--skip-prompts",
   "-y", "--yes", "-f", "--force", "--dry-run"}

CreateFlagTokens ==
  {"-h", "--help", "-v", "--version", "-t", "--template", "-a", "--author",
   "-d", "--description", "--dry-run", "-f", "--force", "-g", "--git",
   "--no-git", "-i", "--install", "--no-install", "-y", "--yes",
   "--no-color", "--pm", "--json", "--verbose"}

\* String.prototype.startsWith('-')
StartsWithDash(t) ==
  t \in QuappFlagTokens \cup CreateFlagTokens \cup {"--bogus", "-x", "-5"}

\* JavaScript truthiness of a string
Truthy(t) == t /= ""

\* parseInt(value, 10): <<n>> for a number, <<>> for NaN
ParseInt(t) ==
  CASE t = "3000"  -> Some(3000)
    [] t = "4000"  -> Some(4000)
    [] t = "99999" -> Some(99999)
    [] t = "65535" -> Some(65535)
    [] t = "65536" -> Some(65536)
    [] t = "1"     -> Some(1)
    [] t = "0"     -> Some(0)
    [] t = "-5"    -> Some(0 - 5)
    [] t = "80abc" -> Some(80)
    [] OTHER       -> null

\* argv[k] with the code's 0-based index; <<>> (undefined) past the end
At(a, k) == IF k >= 0 /\ k < Len(a) THEN Some(a[k + 1]) ELSE null

\* !value || value.startsWith('-')
MissingValue(value) ==
  value = null \/ ~Truthy(value[1]) \/ StartsWithDash(value[1])

\* One diagnostic string: its fixed text, the token or flag it names, and the
\* other interpolated value (a command context or an owning command).
Err(text, token, other) == [text |-> text, token |-> token, other |-> other]

(***************************************************************************)
(* quapp: parseArgs                                                        *)
(***************************************************************************)
QuappArgs0 ==
  [command |-> null,
   help |-> FALSE, version |-> FALSE, json |-> FALSE, verbose |-> FALSE,
   noColor |-> FALSE,
   port |-> null, host |-> null, qr |-> TRUE, open |-> FALSE, https |-> FALSE,
   output |-> null, clean |-> TRUE, skipPrompts |-> FALSE,
   yes |-> FALSE, force |-> FALSE, dryRun |-> FALSE,
   extra |-> <<>>, errors |-> <<>>]

\* An iteration that leaves the cursor one token further than the code does.
IterSkip(a, k) == [args |-> a, i |-> k + 1]

\* Result of one loop iteration: the accumulator and the cursor.
Iter(a, k) == [args |-> a, i |-> k]

PushError(a, e) == [a EXCEPT !.errors = Append(@, e)]

\* A value-taking quapp flag whose value is stored as it is (--host, --output).
QuappValued(a, av, k, flag, field) ==
  LET value == At(av, k + 1) IN
  IF MissingValue(value)
    THEN Iter(PushError(a, Err("requires a value", flag, "")), k + 1)
    ELSE Iter([a EXCEPT ![field] = value], k + 2)

\* QuappPort keeping the port of an earlier occurrence.
QuappPortFirstWins(a, av, k) ==
  LET value == At(av, k + 1) IN
  IF MissingValue(value)
    THEN Iter(PushError(a, Err("requires a value", "--port", "")), k + 1)
    ELSE LET port == ParseInt(value[1]) IN
         IF port = null \/ port[1] < 1 \/ port[1] > 65535
           THEN Iter(PushError(a, Err("Invalid port. Must be 1-65535",
                                      value[1], "")), k + 2)
           ELSE Iter([a EXCEPT !.port = IF @ = null THEN port ELSE @], k + 2)

QuappPort(a, av, k) ==
  LET value == At(av, k + 1) IN
  IF MissingValue(value)
    THEN Iter(PushError(a, Err("requires a value", "--port", "")), k + 1)
    ELSE LET port == ParseInt(value[1]) IN
         IF port = null \/ port[1] < 1 \/ port[1] > 65535
           THEN Iter(PushError(a, Err("Invalid port. Must be 1-65535",
                                      value[1], "")), k + 2)
           ELSE Iter([a EXCEPT !.port = port], k + 2)

\* The command a "Run quapp <ctx> --help" hint names; "" when none is selected.
Ctx(a) == IF a.command = null THEN "" ELSE a.command[1]

\* One iteration of the while loop of parseArgs (strict parser).
QuappParseStep(a, av, k) ==
  LET arg == av[k + 1] IN
  CASE a.command = null /\ arg \in {"serve", "build", "init"}
         -> Iter([a EXCEPT !.command = Some(arg)], k + 1)
    [] arg \in {"-h", "--help"}    -> Iter([a EXCEPT !.help = TRUE], k + 1)
    [] arg \in {"-v", "--version"} -> Iter([a EXCEPT !.version = TRUE], k + 1)
    [] arg = "--json"              -> Iter([a EXCEPT !.json = TRUE], k + 1)
    [] arg = "--verbose"           -> Iter([a EXCEPT !.verbose = TRUE], k + 1)
    [] arg = "--no-color"          -> Iter([a EXCEPT !.noColor = TRUE], k + 1)
    [] arg \in {"-p", "--port"}    -> QuappPort(a, av, k)
    [] arg = "--host"              -> QuappValued(a, av, k, "--host", "host")
    [] arg = "--no-qr"             -> Iter([a EXCEPT !.qr = FALSE], k + 1)
    [] arg = "--open"              -> Iter([a EXCEPT !.open = TRUE], k + 1)
    [] arg = "--https"             -> Iter([a EXCEPT !.https = TRUE], k + 1)
    [] arg \in {"-o", "--output"}  -> QuappValued(a, av, k, "--output", "output")
    [] arg = "--no-clean"          -> Iter([a EXCEPT !.clean = FALSE], k + 1)
    [] arg = "--skip-prompts"      -> Iter([a EXCEPT !.skipPrompts = TRUE], k + 1)
    [] arg \in {"-y", "--yes"}     -> Iter([a EXCEPT !.yes = TRUE], k + 1)
    [] arg \in {"-f", "--force"}   -> Iter([a EXCEPT !.force = TRUE], k + 1)
    [] arg = "--dry-run"           -> Iter([a EXCEPT !.dryRun = TRUE], k + 1)
    [] OTHER ->
         IF StartsWithDash(arg)
           THEN Iter(PushError(a, Err("Unknown flag", arg, Ctx(a))), k + 1)
           ELSE IF a.command /= null
             THEN Iter(PushError(a, Err("Unexpected argument", arg, Ctx(a))), k + 1)
             ELSE Iter(PushError(a, Err("Unknown command", arg, "")), k + 1)


\* validateCommandFlags: scoping errors, appended in the order of the code.
ScopeError(flag, owner) == Err("is only valid for command", flag, owner)

\* ServeOnlyErrors with the --https check left out.
ServeOnlyErrorsNoHttps(a) ==
  (IF a.port /= null THEN <<ScopeError("--port", "serve")>> ELSE <<>>)
  \o (IF a.host /= null THEN <<ScopeError("--host", "serve")>> ELSE <<>>)
  \o (IF a.qr = FALSE THEN <<ScopeError("--no-qr", "serve")>> ELSE <<>>)
  \o (IF a.open = TRUE THEN <<ScopeError("--open", "serve")>> ELSE <<>>)

ServeOnlyErrors(a) ==
  (IF a.port /= null THEN <<ScopeError("--port", "serve")>> ELSE <<>>)
  \o (IF a.host /= null THEN <<ScopeError("--host", "serve")>> ELSE <<>>)
  \o (IF a.qr = FALSE THEN <<ScopeError("--no-qr", "serve")>> ELSE <<>>)
  \o (IF a.open = TRUE THEN <<ScopeError("--open", "serve")>> ELSE <<>>)
  \o (IF a.https = TRUE THEN <<ScopeError("--https", "serve")>> ELSE <<>>)

\* The build-only check without the --skip-prompts error.
BuildOnlyErrorsNoSkip(a) ==
  (IF a.output /= null THEN <<ScopeError("--output", "build")>> ELSE <<>>)
  \o (IF a.clean = FALSE THEN <<ScopeError("--no-clean", "build")>> ELSE <<>>)

BuildOnlyErrors(a) ==
  (IF a.output /= null THEN <<ScopeError("--output", "build")>> ELSE <<>>)
  \o (IF a.clean = FALSE THEN <<ScopeError("--no-clean", "build")>> ELSE <<>>)
  \o (IF a.skipPrompts = TRUE
        THEN <<ScopeError("--skip-prompts", "build")>> ELSE <<>>)

InitOnlyErrors(a) ==
  (IF a.yes = TRUE THEN <<ScopeError("--yes", "init")>> ELSE <<>>)
  \o (IF a.force = TRUE THEN <<ScopeError("--force", "init")>> ELSE <<>>)
  \o (IF a.dryRun = TRUE THEN <<ScopeError("--dry-run", "init")>> ELSE <<>>)

\* validateCommandFlags without the early return for an absent command.
validateCommandFlagsNoGuard(a) ==
  [a EXCEPT !.errors =
     @ \o (IF a.command /= Some("serve") THEN ServeOnlyErrors(a) ELSE <<>>)
       \o (IF a.command /= Some("build") THEN BuildOnlyErrors(a) ELSE <<>>)
       \o (IF a.command /= Some("init") THEN InitOnlyErrors(a) ELSE <<>>)]

validateCommandFlags(a) ==
  IF a.command = null THEN a
  ELSE [a EXCEPT !.errors =
          @ \o (IF a.command /= Some("serve") THEN ServeOnlyErrors(a) ELSE <<>>)
            \o (IF a.command /= Some("build") THEN BuildOnlyErrors(a) ELSE <<>>)
            \o (IF a.command /= Some("init") THEN InitOnlyErrors(a) ELSE <<>>)]

(***************************************************************************)
(* quapp: the pass-through parseArgs of packages/quapp/lib/args.js         *)
(***************************************************************************)
\* args.<field> = argv[++i]: the next token is stored unchecked (undefined at
\* the end of the input) and the cursor moves by two.
LegacyValued(a, av, k, field) == Iter([a EXCEPT ![field] = At(av, k + 1)], k + 2)

\* The token as the template literal prints it ("undefined" past the end).
Shown(value) == IF value = null THEN "undefined" ELSE value[1]

LegacyPort(a, av, k) ==
  LET value == At(av, k + 1)
      port  == IF value = null THEN null ELSE ParseInt(value[1]) IN
  IF port = null \/ port[1] < 1 \/ port[1] > 65535
    THEN Iter(PushError(a, Err("Invalid port. Must be 1-65535",
                               Shown(value), "")), k + 2)
    ELSE Iter([a EXCEPT !.port = port], k + 2)

LegacyParseStep(a, av, k) ==
  LET arg == av[k + 1] IN
  CASE a.command = null /\ arg \in {"serve", "build", "init"}
         -> Iter([a EXCEPT !.command = Some(arg)], k + 1)
    [] arg \in {"-h", "--help"}    -> Iter([a EXCEPT !.help = TRUE], k + 1)
    [] arg \in {"-v", "--version"} -> Iter([a EXCEPT !.version = TRUE], k + 1)
    [] arg = "--json"              -> Iter([a EXCEPT !.json = TRUE], k + 1)
    [] arg = "--verbose"           -> Iter([a EXCEPT !.verbose = TRUE], k + 1)
    [] arg = "--no-color"          -> Iter([a EXCEPT !.noColor = TRUE], k + 1)
    [] arg \in {"-p", "--port"}    -> LegacyPort(a, av, k)
    [] arg = "--host"              -> LegacyValued(a, av, k, "host")
    [] arg = "--no-qr"             -> Iter([a EXCEPT !.qr = FALSE], k + 1)
    [] arg = "--open"              -> Iter([a EXCEPT !.open = TRUE], k + 1)
    [] arg = "--https"             -> Iter([a EXCEPT !.https = TRUE], k + 1)
    [] arg \in {"-o", "--output"}  -> LegacyValued(a, av, k, "output")
    [] arg = "--no-clean"          -> Iter([a EXCEPT !.clean = FALSE], k + 1)
    [] arg = "--skip-prompts"      -> Iter([a EXCEPT !.skipPrompts = TRUE], k + 1)
    [] arg \in {"-y", "--yes"}     -> Iter([a EXCEPT !.yes = TRUE], k + 1)
    [] arg \in {"-f", "--force"}   -> Iter([a EXCEPT !.force = TRUE], k + 1)
    [] arg = "--dry-run"           -> Iter([a EXCEPT !.dryRun = TRUE], k + 1)
    [] OTHER -> Iter([a EXCEPT !.extra = Append(@, arg)], k + 1)

(***************************************************************************)
(* create-quapp: parseArgs and getEffectiveOptions                         *)
(***************************************************************************)
ALL_TEMPLATES ==
  {"react", "react-ts", "react+swc", "react-ts+swc", "vue", "vue-ts",
   "vanilla-js", "vanilla-ts", "solid-js", "solid-ts"}

isValidManager(name) == name \in {"npm", "yarn", "pnpm", "bun"}

CreateArgs0 ==
  [projectName |-> null,
   template |-> null, author |-> null, description |-> null,
   force |-> FALSE, git |-> null, install |-> null, yes |-> FALSE,
   dryRun |-> FALSE, noColor |-> FALSE, packageManager |-> null,
   json |-> FALSE, verbose |-> FALSE, help |-> FALSE, version |-> FALSE,
   errors |-> <<>>]

\* const value = argv[++i]; ... i++: the cursor moves by two on every path.
\* `valid` is the check of the value (template list, manager list, none).
CreateValued(a, av, k, flag, field, valid, invalidText) ==
  LET value == At(av, k + 1) IN
  IF MissingValue(value)
    THEN Iter(PushError(a, Err("requires a value", flag, "")), k + 2)
    ELSE IF ~valid
      THEN Iter(PushError(a, Err(invalidText, value[1], "")), k + 2)
      ELSE Iter([a EXCEPT ![field] = value], k + 2)

\* The token after the cursor, for value checks ("" when there is none).
NextTok(av, k) == IF At(av, k + 1) = null THEN "" ELSE At(av, k + 1)[1]

CreateParseStep(a, av, k) ==
  LET arg == av[k + 1] IN
  CASE arg \in {"-h", "--help"}    -> Iter([a EXCEPT !.help = TRUE], k + 1)
    [] arg \in {"-v", "--version"} -> Iter([a EXCEPT !.version = TRUE], k + 1)
    [] arg \in {"-t", "--template"}
         -> CreateValued(a, av, k, "--template", "template",
                         NextTok(av, k) \in ALL_TEMPLATES, "Invalid template")
    [] arg \in {"-a", "--author"}
         -> CreateValued(a, av, k, "--author", "author", TRUE, "")
    [] arg \in {"-d", "--description"}
         -> CreateValued(a, av, k, "--description", "description", TRUE, "")
    [] arg = "--dry-run"           -> Iter([a EXCEPT !.dryRun = TRUE], k + 1)
    [] arg \in {"-f", "--force"}   -> Iter([a EXCEPT !.force = TRUE], k + 1)
    [] arg \in {"-g", "--git"}     -> Iter([a EXCEPT !.git = Some(TRUE)], k + 1)
    [] arg = "--no-git"            -> Iter([a EXCEPT !.git = Some(FALSE)], k + 1)
    [] arg \in {"-i", "--install"} -> Iter([a EXCEPT !.install = Some(TRUE)], k + 1)
    [] arg = "--no-install"        -> Iter([a EXCEPT !.install = Some(FALSE)], k + 1)
    [] arg \in {"-y", "--yes"}     -> Iter([a EXCEPT !.yes = TRUE], k + 1)
    [] arg = "--no-color"          -> Iter([a EXCEPT !.noColor = TRUE], k + 1)
    [] arg = "--pm"
         -> CreateValued(a, av, k, "--pm", "packageManager",
                         isValidManager(NextTok(av, k)),
                         "Invalid package manager")
    [] arg = "--json"              -> Iter([a EXCEPT !.json = TRUE], k + 1)
    [] arg = "--verbose"           -> Iter([a EXCEPT !.verbose = TRUE], k + 1)
    [] OTHER ->
         IF StartsWithDash(arg)
           THEN Iter(PushError(a, Err("Unknown option", arg, "")), k + 1)
           ELSE IF a.projectName = null \/ ~Truthy(a.projectName[1])
             THEN Iter([a EXCEPT !.projectName = Some(arg)], k + 1)
             ELSE Iter(PushError(a, Err("Unexpected argument", arg, "")), k + 1)

\* Defaults that turn git and install on.
DEFAULTSOptIn == [template |-> "react", git |-> TRUE, install |-> TRUE, force |-> FALSE]

DEFAULTS == [template |-> "react", git |-> FALSE, install |-> FALSE, force |-> FALSE]

\* a || b on nullable values: a when it is set and truthy, else b
OrElse(a, b) == IF a /= null /\ a[1] /= "" THEN a ELSE b

\* Effective options that drop the dry-run request.
getEffectiveOptionsNoDryRun(a) ==
  [name |-> a.projectName,
   template |-> OrElse(a.template,
                       IF a.yes THEN Some(DEFAULTS.template) ELSE null),
   author |-> a.author,
   description |-> a.description,
   force |-> (a.force \/ DEFAULTS.force),
   git |-> IF a.yes /\ a.git = null THEN Some(DEFAULTS.git) ELSE a.git,
   install |-> IF a.yes /\ a.install = null THEN Some(DEFAULTS.install)
               ELSE a.install,
   dryRun |-> FALSE,
   packageManager |-> a.packageManager,
   json |-> a.json,
   verbose |-> a.verbose,
   noColor |-> a.noColor,
   interactive |-> ~a.yes]

getEffectiveOptions(a) ==
  [name |-> a.projectName,
   template |-> OrElse(a.template,
                       IF a.yes THEN Some(DEFAULTS.template) ELSE null),
   author |-> a.author,
   description |-> a.description,
   force |-> (a.force \/ DEFAULTS.force),
   git |-> IF a.yes /\ a.git = null THEN Some(DEFAULTS.git) ELSE a.git,
   install |-> IF a.yes /\ a.install = null THEN Some(DEFAULTS.install)
               ELSE a.install,
   dryRun |-> a.dryRun,
   packageManager |-> a.packageManager,
   json |-> a.json,
   verbose |-> a.verbose,
   noColor |-> a.noColor,
   interactive |-> ~a.yes]


(***************************************************************************)
(* Exit codes (lib/constants.js of both packages)                          *)
(***************************************************************************)
SUCCESS == 0
GENERAL_ERROR == 1
INVALID_ARGS == 2
BUILD_FAILED == 3
CONFIG_ERROR == 4
MISSING_DEPENDENCY == 5
USER_CANCELLED == 130
TEMPLATE_NOT_FOUND == 3
GIT_ERROR == 4
NETWORK_ERROR == 5

(***************************************************************************)
(* lib/logger.js.  The three output streams of a run are threaded through  *)
(* the logger calls as one record io = [logger, stdout, stderr].           *)
(***************************************************************************)
Text(body) == [kind |-> "text", body |-> body]
Json(doc) == [kind |-> "json", body |-> doc]

Logger0 == [jsonMode |-> FALSE, verboseMode |-> FALSE, logs |-> <<>>]

initLogger(io, json, verbose) ==
  [io EXCEPT !.logger = [jsonMode |-> json, verboseMode |-> verbose,
                         logs |-> <<>>]]

Entry(level, message) ==
  [level |-> level, message |-> message, timestamp |-> "Date.now()"]

Buffer(io, level, message) ==
  [io EXCEPT !.logger.logs = Append(@, Entry(level, message))]

ToStdout(io, chunk) == [io EXCEPT !.stdout = Append(@, chunk)]
ToStderr(io, chunk) == [io EXCEPT !.stderr = Append(@, chunk)]

\* {...a, ...b}
Spread(a, b) ==
  [k \in DOMAIN a \cup DOMAIN b |-> IF k \in DOMAIN b THEN b[k] ELSE a[k]]

\* outputJson(result): one console.log of the result with the logs key added
\* when verbose (JSON.stringify drops the key whose value is undefined).
outputJson(io, r) ==
  IF io.logger.jsonMode
    THEN ToStdout(io, Json(IF io.logger.verboseMode
                             THEN Spread(r, [logs |-> io.logger.logs])
                             ELSE r))
    ELSE io

\* A logger whose error() also writes to standard error in JSON mode.
LogCallErrorToStderr(io, c) ==
  CASE c.fn \in {"info", "success", "warn", "step"} ->
         IF io.logger.jsonMode THEN Buffer(io, c.fn, c.msg)
         ELSE ToStdout(io, Text(c.msg))
    [] c.fn = "error" ->
         IF io.logger.jsonMode
           THEN ToStderr(Buffer(io, "error", c.msg), Text(c.msg))
         ELSE ToStderr(io, Text(c.msg))
    [] c.fn = "debug" ->
         IF io.logger.jsonMode /\ io.logger.verboseMode
           THEN Buffer(io, "debug", c.msg)
         ELSE IF ~io.logger.jsonMode /\ io.logger.verboseMode
           THEN ToStdout(io, Text(c.msg))
         ELSE io
    [] c.fn \in {"newline", "banner", "nextSteps"} ->
         IF ~io.logger.jsonMode THEN ToStdout(io, Text(c.msg)) ELSE io
    [] c.fn = "console.log" -> ToStdout(io, Text(c.msg))
    [] c.fn = "console.error" -> ToStderr(io, Text(c.msg))
    [] c.fn = "outputJson" -> outputJson(io, c.msg)

\* One call of the logger (or of console.log): c = [fn, msg].
LogCall(io, c) ==
  CASE c.fn \in {"info", "success", "warn", "step"} ->
         IF io.logger.jsonMode THEN Buffer(io, c.fn, c.msg)
         ELSE ToStdout(io, Text(c.msg))
    [] c.fn = "error" ->
         IF io.logger.jsonMode THEN Buffer(io, "error", c.msg)
         ELSE ToStderr(io, Text(c.msg))
    [] c.fn = "debug" ->
         IF io.logger.jsonMode /\ io.logger.verboseMode
           THEN Buffer(io, "debug", c.msg)
         ELSE IF ~io.logger.jsonMode /\ io.logger.verboseMode
           THEN ToStdout(io, Text(c.msg))
         ELSE io
    [] c.fn \in {"newline", "banner", "nextSteps"} ->
         IF ~io.logger.jsonMode THEN ToStdout(io, Text(c.msg)) ELSE io
    [] c.fn = "console.log" -> ToStdout(io, Text(c.msg))
    [] c.fn = "console.error" -> ToStderr(io, Text(c.msg))
    [] c.fn = "outputJson" -> outputJson(io, c.msg)

Call(fn, msg) == [fn |-> fn, msg |-> msg]

RECURSIVE LogAll(_, _)
LogAll(io, cs) ==
  IF cs = <<>> THEN io ELSE LogAll(LogCall(io, Head(cs)), Tail(cs))

\* The streams of the current state, and their update by an action.
IO == [logger |-> logger, stdout |-> stdout, stderr |-> stderr]

SetIO(io) ==
  /\ logger' = io.logger
  /\ stdout' = io.stdout
  /\ stderr' = io.stderr

\* process.exit(code)
Exit(code) == pc' = "exit" /\ exitCode' = Some(code)


(***************************************************************************)
(* quapp handlers.  A handler is an operator from the streams, its         *)
(* options, the disk it finds and the outcomes of the external steps to    *)
(* what it leaves behind: Out(io, result, disk, effects, cancelled).       *)
(***************************************************************************)
Out(io, r, d, fx, c) ==
  [io |-> io, result |-> r, disk |-> d, effects |-> fx, cancelled |-> c]

Effect(op, target) == [op |-> op, target |-> target]

\* ---- commands/init.js ---------------------------------------------------
hasQuappScripts(d) == d.dev = "quapp" \/ d.qbuild = "quapp"

\* An init that sets both scripts whatever package.json holds.
ScriptsAddedAlways(d, force) == <<"dev", "qbuild">>

\* The scripts runInit adds: a script is set when it is absent or force is on.
ScriptsAdded(d, force) ==
  (IF d.dev = "none" \/ force THEN <<"dev">> ELSE <<>>)
  \o (IF d.qbuild = "none" \/ force THEN <<"qbuild">> ELSE <<>>)

\* e.proceed: the answer to the confirmation; e.configOk / e.pkgOk: whether
\* the two writeFileSync calls succeed.
runInit(io, o, d, e) ==
  IF d.pkg = "missing" THEN
    Out(LogAll(io, <<Call("error", "No package.json found in current directory"),
                     Call("info", "Run this command in an existing project")>>),
        [success |-> FALSE, errorCode |-> "NO_PACKAGE_JSON",
         error |-> "No package.json found",
         suggestion |-> "Run npm init first",
         exitCode |-> CONFIG_ERROR],
        d, <<>>, FALSE)
  ELSE IF d.pkg = "invalid" THEN
    Out(LogCall(io, Call("error", "Failed to read package.json")),
        [success |-> FALSE, errorCode |-> "INVALID_PACKAGE_JSON",
         error |-> "Failed to parse package.json",
         exitCode |-> CONFIG_ERROR],
        d, <<>>, FALSE)
  ELSE IF d.hasConfig /\ d.hasDep /\ hasQuappScripts(d) /\ ~o.force THEN
    Out(LogCall(io, Call("info", "This project is already initialized with Quapp")),
        [success |-> TRUE, alreadyInitialized |-> TRUE,
         message |-> "Project already initialized"],
        d, <<>>, FALSE)
  ELSE IF o.dryRun THEN
    Out(IF ~io.logger.jsonMode
          THEN LogAll(io,
                 <<Call("info", "Dry run - no changes made")>>
                 \o (IF ~d.hasConfig
                       THEN <<Call("info", "Would create: quapp.config.json")>>
                       ELSE <<>>)
                 \o (IF ~hasQuappScripts(d)
                       THEN <<Call("info", "Would add scripts: dev, qbuild")>>
                       ELSE <<>>)
                 \o (IF ~d.hasDep
                       THEN <<Call("info", "Would add devDependency: quapp")>>
                       ELSE <<>>))
          ELSE io,
        [success |-> TRUE, dryRun |-> TRUE,
         wouldChange |-> [createConfig |-> ~d.hasConfig,
                          addScripts |-> ~hasQuappScripts(d),
                          addDependency |-> ~d.hasDep]],
        d, <<>>, FALSE)
  ELSE IF ~o.skipPrompts /\ ~o.yes /\ ~e.proceed THEN
    Out(LogCall(io, Call("warn", "Init cancelled")),
        [success |-> FALSE, cancelled |-> TRUE, exitCode |-> USER_CANCELLED],
        d, <<>>, TRUE)
  ELSE
    LET writeConfig == ~d.hasConfig \/ o.force
        scripts == ScriptsAdded(d, o.force)
        depAdded == ~d.hasDep \/ o.force
        writePkg == scripts /= <<>> \/ depAdded
        fx1 == IF writeConfig
                 THEN <<Effect("write", "quapp.config.json")>> ELSE <<>>
        d1 == IF writeConfig THEN [d EXCEPT !.hasConfig = TRUE] ELSE d
        io1 == IF writeConfig
                 THEN LogCall(io, Call("success", "Created quapp.config.json"))
                 ELSE io
    IN
    IF writeConfig /\ ~e.configOk THEN
      Out(LogCall(io, Call("error", "Failed to create quapp.config.json")),
          [success |-> FALSE, error |-> "Failed to create config file",
           exitCode |-> GENERAL_ERROR],
          d, <<>>, FALSE)
    ELSE IF writePkg /\ ~e.pkgOk THEN
      Out(LogCall(io1, Call("error", "Failed to update package.json")),
          [success |-> FALSE, error |-> "Failed to update package.json",
           exitCode |-> GENERAL_ERROR],
          d1, fx1, FALSE)
    ELSE
      LET d2 == IF writePkg
                  THEN [d1 EXCEPT
                          !.dev = IF "dev" \in {scripts[n] : n \in DOMAIN scripts}
                                    THEN "quapp" ELSE @,
                          !.qbuild = IF "qbuild" \in {scripts[n] : n \in DOMAIN scripts}
                                       THEN "quapp" ELSE @,
                          !.hasDep = TRUE]
                  ELSE d1
          fx2 == fx1 \o (IF writePkg
                           THEN <<Effect("write", "package.json")>> ELSE <<>>)
          io2 == LogAll(io1,
                   (IF writePkg /\ scripts /= <<>>
                      THEN <<Call("success", "Added scripts")>> ELSE <<>>)
                   \o (IF writePkg /\ depAdded
                         THEN <<Call("success", "Added quapp to devDependencies")>>
                         ELSE <<>>)
                   \o <<Call("newline", ""),
                        Call("success", "Quapp initialized successfully!")>>
                   \o (IF ~io.logger.jsonMode
                         THEN <<Call("info", ""), Call("info", "Next steps:")>>
                              \o (IF depAdded
                                    THEN <<Call("info", "Run npm install")>>
                                    ELSE <<>>)
                              \o <<Call("info", "Run npm run dev"),
                                   Call("info", "Run npm run qbuild")>>
                         ELSE <<>>))
      IN
      Out(io2,
          [success |-> TRUE,
           changes |-> (IF writeConfig THEN <<"quapp.config.json">> ELSE <<>>)
                       \o [n \in DOMAIN scripts |->
                             IF scripts[n] = "dev" THEN "script:dev"
                             ELSE "script:qbuild"]
                       \o (IF depAdded THEN <<"devDependency:quapp">> ELSE <<>>),
           nextSteps |-> IF depAdded
                           THEN <<"npm install", "npm run dev", "npm run qbuild">>
                           ELSE <<"npm run dev", "npm run qbuild">>],
          d2, fx2, FALSE)

InitDisks ==
  { [pkg |-> p, hasConfig |-> c, hasDep |-> FALSE, dev |-> "none",
     qbuild |-> "none"] : p \in {"missing", "invalid"}, c \in BOOLEAN }
  \cup
  [pkg : {"ok"}, hasConfig : BOOLEAN, hasDep : BOOLEAN,
   dev : {"none", "other", "quapp"}, qbuild : {"none", "other", "quapp"}]

InitOutcomes == [proceed : BOOLEAN, configOk : BOOLEAN, pkgOk : BOOLEAN]


\* ---- commands/build.js --------------------------------------------------
\* promptMissingFields: the questions asked, in order.
Questions(d) ==
  (IF "name" \in d.missing THEN <<"name">> ELSE <<>>)
  \o (IF "version" \in d.missing THEN <<"version">> ELSE <<>>)
  \o (IF ~d.author THEN <<"author">> ELSE <<>>)

\* The package.json fields the build needs, after `names` were filled in.
Filled(d, names) ==
  [d EXCEPT !.missing = @ \ names,
            !.author = @ \/ "author" \in names]

\* A cleanup that does not look at the clean option.
CleanRequestedAlways(o) == TRUE

\* options.clean !== false
CleanRequested(o) == o.clean /= FALSE

\* Steps 1 to 5 of runBuild, after package.json was settled.
\* e.fail names the external step that fails ("none": all succeed).
BuildSteps(io, o, d, fx, c, e) ==
  LET io1 == LogCall(io, Call("step", "Building for production..."))
      fx1 == fx \o <<Effect("exec", "npm run build")>>
  IN
  IF e.fail = "build" THEN
    Out(LogCall(io1, Call("error", "Build failed")),
        [success |-> FALSE, error |-> "Build failed", exitCode |-> BUILD_FAILED],
        d, fx1, c)
  ELSE IF e.fail = "dist" THEN
    Out(LogAll(io1, <<Call("success", "Build completed"),
                      Call("error", "Build output directory not found"),
                      Call("info", "Make sure your build script outputs to the correct directory")>>),
        [success |-> FALSE, error |-> "Build output not found",
         exitCode |-> BUILD_FAILED],
        d, fx1, c)
  ELSE IF e.fail = "manifest" THEN
    Out(LogAll(io1, <<Call("success", "Build completed"),
                      Call("step", "Generating manifest..."),
                      Call("error", "Failed to write manifest")>>),
        [success |-> FALSE, error |-> "Failed to write manifest",
         exitCode |-> GENERAL_ERROR],
        d, fx1, c)
  ELSE
    LET io2 == LogAll(io1, <<Call("success", "Build completed"),
                             Call("step", "Generating manifest..."),
                             Call("success", "Manifest created"),
                             Call("debug", "Package"),
                             Call("debug", "Version"),
                             Call("step", "Compressing...")>>)
        fx2 == fx1 \o <<Effect("write", "dist/manifest.json")>>
    IN
    IF e.fail = "compress" THEN
      Out(LogCall(io2, Call("error", "Failed to create archive")),
          [success |-> FALSE, error |-> "Compression failed",
           exitCode |-> GENERAL_ERROR],
          d, fx2, c)
    ELSE
      LET io3 == LogCall(io2, Call("success", "Created archive"))
          fx3 == fx2 \o <<Effect("write", "archive.qpp")>>
          io4 == IF CleanRequested(o)
                   THEN LogCall(io3, IF e.fail = "rm"
                                       THEN Call("warn", "Could not remove dist folder")
                                       ELSE Call("debug", "Cleaned up dist folder"))
                   ELSE io3
          fx4 == IF CleanRequested(o) /\ e.fail /= "rm"
                   THEN fx3 \o <<Effect("rm", "dist")>> ELSE fx3
      IN
      Out(LogAll(io4, <<Call("newline", ""), Call("success", "Build complete")>>),
          [success |-> TRUE,
           outputFile |-> IF o.output = null THEN <<"dist", ".qpp">>
                          ELSE <<o.output[1], ".qpp">>,
           outputPath |-> "cwd/outputFile",
           manifest |-> [package_name |-> "com.author.name",
                         version |-> "version"],
           duration |-> "ms"],
          d, fx4, c)

\* Everything of runBuild from the build-script check on.
BuildFrom(io, o, d, fx, c, e) ==
  IF ~d.buildScript THEN
    Out(LogAll(io, <<Call("error", "No build script found in package.json"),
                     Call("info", "Add a build script to your package.json")>>),
        [success |-> FALSE, errorCode |-> "NO_BUILD_SCRIPT",
         error |-> "No build script",
         suggestion |-> "Add to package.json: scripts.build",
         exitCode |-> CONFIG_ERROR],
        d, fx, c)
  ELSE BuildSteps(io, o, d, fx, c, e)

\* e.answered: how many of the questions the user answers before cancelling
\* (all of them: no cancel); e.updateOk: whether package.json can be written.
runBuild(io, o, d, e) ==
  LET io0 == IF ~d.cfgValid
               THEN LogCall(io, Call("warn", "Invalid quapp.config.json")) ELSE io
  IN
  IF d.pkg /= "ok" THEN
    Out(LogCall(io0, Call("error", "package.json not found or invalid")),
        [success |-> FALSE, errorCode |-> "PACKAGE_JSON_ERROR",
         error |-> "package.json not found or invalid",
         suggestion |-> "Make sure you are in a Quapp project directory",
         exitCode |-> CONFIG_ERROR],
        d, <<>>, FALSE)
  ELSE IF d.missing = {} /\ d.author THEN BuildFrom(io0, o, d, <<>>, FALSE, e)
  ELSE IF o.skipPrompts THEN
    IF "name" \in d.missing THEN
      Out(LogCall(io0, Call("error", "Missing required field: name")),
          [success |-> FALSE, error |-> "Missing name in package.json",
           exitCode |-> CONFIG_ERROR],
          d, <<>>, FALSE)
    ELSE
      LET io1 == LogAll(io0,
                   (IF "version" \in d.missing
                      THEN <<Call("warn", "No version specified, using 1.0.0")>>
                      ELSE <<>>)
                   \o (IF ~d.author
                         THEN <<Call("warn", "No author specified, using developer")>>
                         ELSE <<>>))
      IN
      \* updates is not empty here; a failed update is ignored
      IF e.updateOk
        THEN BuildFrom(io1, o, Filled(d, {"version", "author"}),
                       <<Effect("write", "package.json")>>, FALSE, e)
        ELSE BuildFrom(io1, o, d, <<>>, FALSE, e)
  ELSE
    LET qs == Questions(d)
        answers == {qs[n] : n \in 1..e.answered}
        cancel == e.answered < Len(qs)
    IN
    IF answers = {} THEN BuildFrom(io0, o, d, <<>>, cancel, e)
    ELSE IF ~e.updateOk THEN
      Out(LogCall(io0, Call("error", "Failed to update package.json")),
          [success |-> FALSE, error |-> "Failed to update package.json",
           exitCode |-> CONFIG_ERROR],
          d, <<>>, cancel)
    ELSE BuildFrom(LogCall(io0, Call("success", "Updated package.json")),
                   o, Filled(d, answers),
                   <<Effect("write", "package.json")>>, cancel, e)

BuildDisks ==
  { [cfgValid |-> v, pkg |-> p, missing |-> {}, author |-> TRUE,
     buildScript |-> TRUE] : v \in BOOLEAN, p \in {"missing", "invalid"} }
  \cup
  [cfgValid : BOOLEAN, pkg : {"ok"}, missing : SUBSET {"name", "version"},
   author : BOOLEAN, buildScript : BOOLEAN]

BuildFailPoints == {"none", "build", "dist", "manifest", "compress", "rm"}

BuildOutcomes(d) ==
  [answered : 0..Len(Questions(d)), updateOk : BOOLEAN, fail : BuildFailPoints]


\* ---- commands/serve.js (the version that probes the port itself) --------
DEFAULT_PORT == 5173
maxAttempts == 10

\* Busy ports probed exhaustively from the start port: 0..MaxBusy of them,
\* and the case where all maxAttempts probes fail.
MaxBusy == 1

\* findAvailablePort: `busy` consecutive ports from startPort are in use.
\* found = FALSE is the thrown "Could not find an available port".
findAvailablePort(io, startPort, busy) ==
  LET tried == IF busy < maxAttempts THEN busy ELSE maxAttempts IN
  [io |-> LogAll(io, [n \in 1..tried |-> Call("info", "Port is in use, trying next")]),
   found |-> busy < maxAttempts,
   port |-> startPort + tried,
   retries |-> tried]

\* options.port || config.server.port
ServerPort(o) == IF o.port /= null /\ o.port[1] /= 0 THEN o.port[1] ELSE DEFAULT_PORT

\* options.host || (detected LAN address or localhost)
ServerHost(o) == IF o.host /= null /\ Truthy(o.host[1]) THEN o.host[1] ELSE "detected"

showBanner(io, qr) ==
  LogAll(io, <<Call("newline", ""), Call("console.log", "Dev server running!"),
               Call("newline", "")>>
             \o (IF qr THEN <<Call("newline", ""),
                              Call("console.log", "Scan to open on mobile:"),
                              Call("newline", "")>>
                 ELSE <<>>)
             \o <<Call("newline", ""),
                  Call("console.log", "press h + enter to show help"),
                  Call("newline", "")>>)

\* e.busy: ports in use from the start port; e.ready: the dev server prints
\* its "ready in" line; e.output: it prints other output; e.close: how the
\* child process ends (exit code 0, non-zero, or a spawn error).
runServe(io, o, d, e) ==
  LET io0 == IF ~d.cfgValid
               THEN LogCall(io, Call("warn", "Invalid quapp.config.json")) ELSE io
      start == ServerPort(o)
      host == ServerHost(o)
  IN
  IF ~d.vite THEN
    Out(LogAll(io0, <<Call("error", "Vite is not installed"),
                      Call("info", "Run npm install to install dependencies first.")>>),
        [success |-> FALSE, error |-> "Vite not found",
         exitCode |-> MISSING_DEPENDENCY],
        d, <<>>, FALSE)
  ELSE
    LET probe == IF d.autoRetry /\ ~d.strictPort
                   THEN findAvailablePort(io0, start, e.busy)
                   ELSE [io |-> io0, found |-> TRUE, port |-> start, retries |-> 0]
    IN
    IF ~probe.found THEN
      Out(LogCall(probe.io, Call("error", "Could not find an available port")),
          [success |-> FALSE, error |-> "Could not find an available port",
           exitCode |-> GENERAL_ERROR],
          d, <<>>, FALSE)
    ELSE
      \* npx vite --host <host> --port <port> --strictPort [--https] ...extra
      LET viteArgs == [host |-> host, port |-> probe.port, strictPort |-> TRUE,
                       https |-> o.https, extra |-> o.extra]
          fx == <<Effect("spawn", viteArgs)>>
          io1 == LogCall(probe.io, Call("debug", "Starting dev server"))
          io2 == IF e.ready THEN showBanner(io1, o.qr) ELSE io1
          io3 == IF e.output
                   THEN ToStdout(io2, Text("dev server output"))
                   ELSE io2
          url == [host |-> host, port |-> probe.port]
      IN
      CASE e.close = "ok" ->
             Out(io3, [success |-> TRUE, lanUrl |-> url,
                       localUrl |-> [host |-> "localhost", port |-> probe.port]],
                 d, fx, FALSE)
        [] e.close = "failed" ->
             Out(io3, [success |-> FALSE, error |-> "Dev server exited with code",
                       exitCode |-> GENERAL_ERROR],
                 d, fx, FALSE)
        [] e.close = "error" ->
             Out(LogCall(io3, Call("error", "Failed to start dev server")),
                 [success |-> FALSE, error |-> "spawn error",
                  exitCode |-> GENERAL_ERROR],
                 d, fx, FALSE)

ServeDisks ==
  [cfgValid : {TRUE}, vite : BOOLEAN, autoRetry : BOOLEAN, strictPort : {FALSE}]

ServeOutcomes ==
  [busy : (0..MaxBusy) \cup {maxAttempts}, ready : BOOLEAN, output : BOOLEAN,
   close : {"ok", "failed", "error"}]


(***************************************************************************)
(* Inputs of a run                                                         *)
(***************************************************************************)
SeqsUpTo(T, n) == UNION { [1..k -> T] : k \in 0..n }

QuappTokens ==
  {"serve", "build", "init", "--help", "--version", "--json", "--verbose",
   "--port", "-p", "--host", "--no-qr", "--open", "--https",
   "--output", "-o", "--no-clean", "--skip-prompts",
   "--yes", "--force", "--dry-run",
   "3000", "abc", "99999", "app", "--bogus", "-5"}

LegacyTokens ==
  {"serve", "build", "--help", "--json", "--port", "-p", "--host",
   "3000", "abc", "99999", "--bogus", "-5"}

\* The end-to-end scenarios of the specification, longer than MaxLen.
QuappScenarios ==
  { <<"build", "-o", "app", "--skip-prompts", "--json">>,
    <<"serve", "--port", "3000", "--port", "4000">>,
    <<"serve", "--port", "3000", "--port", "abc">>,
    <<"serve", "--host", "app", "--host", "abc">>,
    <<"serve", "--port", "80abc">> }

LegacyScenarios == { <<"serve", "--port", "80abc">> }

CreateTokens ==
  {"my-app", "a/b", "--help", "--version", "--json", "--verbose",
   "--template", "-t", "--author", "--description", "--pm",
   "--git", "--no-git", "--install", "--no-install",
   "--yes", "--force", "--dry-run", "react", "nope", "npm", "--bogus"}

CreateScenarios ==
  { <<"my-app", "-t", "react", "--git", "--no-git">>,
    <<"my-app", "--template", "react", "--dry-run", "--json">> }

Inputs(p) ==
  CASE p = "quapp"       -> SeqsUpTo(QuappTokens, MaxLen) \cup QuappScenarios
    [] p = "quappLegacy" -> SeqsUpTo(LegacyTokens, MaxLen) \cup LegacyScenarios
    [] p = "create"      -> SeqsUpTo(CreateTokens, MaxLen) \cup CreateScenarios

Init ==
  /\ prog \in {"quapp", "quappLegacy", "create"}
  /\ argv \in Inputs(prog)
  /\ i = 0
  /\ args = IF prog = "create" THEN CreateArgs0 ELSE QuappArgs0
  /\ pc = "parse"
  /\ logger = Logger0
  /\ stdout = <<>>
  /\ stderr = <<>>
  /\ calls = <<>>
  /\ config = null
  /\ result = null
  /\ exitCode = null
  /\ disk = null
  /\ effects = <<>>
  /\ cancelled = FALSE

(***************************************************************************)
(* parseArgs, one loop iteration per step                                  *)
(***************************************************************************)
mainVars == <<logger, stdout, stderr, calls, config, result, exitCode, disk,
              effects, cancelled>>

QuappParseToken ==
  /\ prog = "quapp" /\ pc = "parse" /\ i < Len(argv)
  /\ LET it == QuappParseStep(args, argv, i) IN args' = it.args /\ i' = it.i
  /\ UNCHANGED <<prog, argv, pc, mainVars>>

\* while condition false: validateCommandFlags(args); return args
QuappParseReturn ==
  /\ prog = "quapp" /\ pc = "parse" /\ i >= Len(argv)
  /\ args' = validateCommandFlags(args)
  /\ pc' = "main"
  /\ UNCHANGED <<prog, argv, i, mainVars>>

LegacyParseToken ==
  /\ prog = "quappLegacy" /\ pc = "parse" /\ i < Len(argv)
  /\ LET it == LegacyParseStep(args, argv, i) IN args' = it.args /\ i' = it.i
  /\ UNCHANGED <<prog, argv, pc, mainVars>>

LegacyParseReturn ==
  /\ prog = "quappLegacy" /\ pc = "parse" /\ i >= Len(argv)
  /\ pc' = "main"
  /\ UNCHANGED <<prog, argv, i, args, mainVars>>

(***************************************************************************)
(* quapp: main (bin/quapp.js)                                              *)
(***************************************************************************)
IsQuapp == prog \in {"quapp", "quappLegacy"}

parseVars == <<prog, argv, i, args>>

QuappMainHelp ==
  /\ IsQuapp /\ pc = "main" /\ args.help
  /\ SetIO(LogCall(IO, Call("console.log", "getHelpText()")))
  /\ Exit(SUCCESS)
  /\ UNCHANGED <<parseVars, calls, config, result, disk, effects, cancelled>>

QuappMainVersion ==
  /\ IsQuapp /\ pc = "main" /\ ~args.help /\ args.version
  /\ SetIO(LogCall(IO, Call("console.log", "getVersion()")))
  /\ Exit(SUCCESS)
  /\ UNCHANGED <<parseVars, calls, config, result, disk, effects, cancelled>>

\* initColors(args.noColor); logger.initLogger({json, verbose})
QuappMainInit ==
  /\ IsQuapp /\ pc = "main" /\ ~args.help /\ ~args.version
  /\ SetIO(initLogger(IO, args.json, args.verbose))
  /\ pc' = "checkErrors"
  /\ UNCHANGED <<parseVars, calls, config, result, exitCode, disk, effects,
                 cancelled>>

ErrorCalls(errs) == [n \in DOMAIN errs |-> Call("error", errs[n])]

\* QuappMainArgErrors exiting with GENERAL_ERROR instead of INVALID_ARGS.
QuappMainArgErrorsGeneral ==
  /\ IsQuapp /\ pc = "checkErrors" /\ Len(args.errors) > 0
  /\ LET io1 == LogAll(IO, ErrorCalls(args.errors)) IN
     SetIO(IF args.json
             THEN outputJson(io1, [success |-> FALSE, errors |-> args.errors])
             ELSE io1)
  /\ Exit(GENERAL_ERROR)
  /\ UNCHANGED <<parseVars, calls, config, result, disk, effects, cancelled>>

QuappMainArgErrors ==
  /\ IsQuapp /\ pc = "checkErrors" /\ Len(args.errors) > 0
  /\ LET io1 == LogAll(IO, ErrorCalls(args.errors)) IN
     SetIO(IF args.json
             THEN outputJson(io1, [success |-> FALSE, errors |-> args.errors])
             ELSE io1)
  /\ Exit(INVALID_ARGS)
  /\ UNCHANGED <<parseVars, calls, config, result, disk, effects, cancelled>>

QuappMainNoCommand ==
  /\ IsQuapp /\ pc = "checkErrors" /\ Len(args.errors) = 0
  /\ args.command = null
  /\ SetIO(LogCall(IO, Call("console.log", "getHelpText()")))
  /\ Exit(SUCCESS)
  /\ UNCHANGED <<parseVars, calls, config, result, disk, effects, cancelled>>

\* HandlerOptions passing args.yes where runBuild expects args.skipPrompts.
HandlerOptionsYes(a) ==
  CASE a.command = Some("serve") ->
         [port |-> a.port, host |-> a.host, qr |-> a.qr, open |-> a.open,
          https |-> a.https, extra |-> a.extra, attempt |-> 0]
    [] a.command = Some("build") ->
         [output |-> a.output, clean |-> a.clean, skipPrompts |-> a.yes]
    [] a.command = Some("init") ->
         [force |-> a.force, yes |-> a.yes, dryRun |-> a.dryRun,
          skipPrompts |-> a.skipPrompts]

\* The options object main builds for the handler of `command`.
HandlerOptions(a) ==
  CASE a.command = Some("serve") ->
         [port |-> a.port, host |-> a.host, qr |-> a.qr, open |-> a.open,
          https |-> a.https, extra |-> a.extra, attempt |-> 0]
    [] a.command = Some("build") ->
         [output |-> a.output, clean |-> a.clean, skipPrompts |-> a.skipPrompts]
    [] a.command = Some("init") ->
         [force |-> a.force, yes |-> a.yes, dryRun |-> a.dryRun,
          skipPrompts |-> a.skipPrompts]

HandlerOf(command) ==
  CASE command = "serve" -> "runServe"
    [] command = "build" -> "runBuild"
    [] command = "init"  -> "runInit"

DisksOf(command) ==
  CASE command = "serve" -> ServeDisks
    [] command = "build" -> BuildDisks
    [] command = "init"  -> InitDisks

\* switch (args.command): the call of the handler.  The default branch is
\* unreachable, parseArgs stores no other command.
QuappMainDispatch ==
  /\ IsQuapp /\ pc = "checkErrors" /\ Len(args.errors) = 0
  /\ args.command /= null
  /\ calls' = Append(calls, [handler |-> HandlerOf(args.command[1]),
                             options |-> HandlerOptions(args)])
  /\ pc' = HandlerOf(args.command[1])
  /\ disk' \in { Some(d) : d \in DisksOf(args.command[1]) }
  /\ UNCHANGED <<parseVars, logger, stdout, stderr, config, result, exitCode,
                 effects, cancelled>>

\* The handler runs to its returned result.
Returns(out) ==
  /\ SetIO(out.io)
  /\ result' = Some(out.result)
  /\ disk' = Some(out.disk)
  /\ effects' = effects \o out.effects
  /\ cancelled' = (cancelled \/ out.cancelled)
  /\ pc' = "mainResult"
  /\ UNCHANGED <<parseVars, calls, config, exitCode>>

Options == calls[Len(calls)].options

RunServe ==
  /\ pc = "runServe"
  /\ \E e \in ServeOutcomes : Returns(runServe(IO, Options, disk[1], e))

RunBuild ==
  /\ pc = "runBuild"
  /\ \E e \in BuildOutcomes(disk[1]) : Returns(runBuild(IO, Options, disk[1], e))

RunInit ==
  /\ pc = "runInit"
  /\ \E e \in InitOutcomes : Returns(runInit(IO, Options, disk[1], e))

\* ExitCodeOf ignoring the exitCode the result carries.
ExitCodeOfNoOverride(r) == IF r.success THEN SUCCESS ELSE GENERAL_ERROR

\* result?.success ? SUCCESS : (result?.exitCode || GENERAL_ERROR)
ExitCodeOf(r) ==
  IF r.success THEN SUCCESS
  ELSE IF "exitCode" \in DOMAIN r /\ r.exitCode /= 0 THEN r.exitCode
  ELSE GENERAL_ERROR

QuappMainResult ==
  /\ IsQuapp /\ pc = "mainResult"
  /\ SetIO(IF args.json /\ result /= null THEN outputJson(IO, result[1]) ELSE IO)
  /\ Exit(ExitCodeOf(result[1]))
  /\ UNCHANGED <<parseVars, calls, config, result, disk, effects, cancelled>>

(***************************************************************************)
(* create-quapp: parseArgs loop, main (index.js) and scaffold              *)
(***************************************************************************)
CreateParseToken ==
  /\ prog = "create" /\ pc = "parse" /\ i < Len(argv)
  /\ LET it == CreateParseStep(args, argv, i) IN args' = it.args /\ i' = it.i
  /\ UNCHANGED <<prog, argv, pc, mainVars>>

CreateParseReturn ==
  /\ prog = "create" /\ pc = "parse" /\ i >= Len(argv)
  /\ pc' = "main"
  /\ UNCHANGED <<prog, argv, i, args, mainVars>>

CreateMainHelp ==
  /\ prog = "create" /\ pc = "main" /\ args.help
  /\ SetIO(LogCall(IO, Call("console.log", "getHelpText()")))
  /\ Exit(SUCCESS)
  /\ UNCHANGED <<parseVars, calls, config, result, disk, effects, cancelled>>

CreateMainVersion ==
  /\ prog = "create" /\ pc = "main" /\ ~args.help /\ args.version
  /\ SetIO(LogCall(IO, Call("console.log", "getVersion()")))
  /\ Exit(SUCCESS)
  /\ UNCHANGED <<parseVars, calls, config, result, disk, effects, cancelled>>

CreateMainInit ==
  /\ prog = "create" /\ pc = "main" /\ ~args.help /\ ~args.version
  /\ SetIO(initLogger(IO, args.json, args.verbose))
  /\ pc' = "checkErrors"
  /\ UNCHANGED <<parseVars, calls, config, result, exitCode, disk, effects,
                 cancelled>>

CreateMainArgErrors ==
  /\ prog = "create" /\ pc = "checkErrors" /\ Len(args.errors) > 0
  /\ LET io1 == LogAll(IO, ErrorCalls(args.errors)) IN
     SetIO(IF args.json
             THEN outputJson(io1, [success |-> FALSE, errors |-> args.errors])
             ELSE io1)
  /\ Exit(INVALID_ARGS)
  /\ UNCHANGED <<parseVars, calls, config, result, disk, effects, cancelled>>

\* getEffectiveOptions, setupCancelHandlers, and the call scaffold(options)
CreateMainScaffold ==
  /\ prog = "create" /\ pc = "checkErrors" /\ Len(args.errors) = 0
  /\ calls' = Append(calls, [handler |-> "scaffold",
                             options |-> getEffectiveOptions(args)])
  /\ pc' = "scaffold"
  /\ UNCHANGED <<parseVars, logger, stdout, stderr, config, result, exitCode,
                 disk, effects, cancelled>>

\* The SIGINT listener installed by setupCancelHandlers; it can run whenever
\* scaffold waits (for the prompts, for the clone).
Sigint ==
  /\ prog = "create" /\ pc \in {"prompts", "clone"}
  /\ LET io1 == LogAll(IO, <<Call("newline", ""),
                             Call("warn", "Setup cancelled (SIGINT)")>>) IN
     SetIO(IF args.json
             THEN outputJson(io1, [success |-> FALSE, cancelled |-> TRUE,
                                   signal |-> "SIGINT"])
             ELSE io1)
  /\ cancelled' = TRUE
  /\ Exit(USER_CANCELLED)
  /\ UNCHANGED <<parseVars, calls, config, result, disk, effects>>

\* detectPackageManager: the --pm flag, else the invoking manager, else npm
detectPackageManager(preferred, agent) ==
  IF preferred /= null THEN preferred[1]
  ELSE IF agent /= null THEN agent[1]
  ELSE "npm"

Falsy(v) == v = null \/ v[1] = ""

\* scaffold up to its first await: the prompts when a name or a template is
\* missing in interactive mode, else straight on to the validation.
ScaffoldStart ==
  /\ pc = "scaffold"
  /\ \E agent \in {null, Some("pnpm")} :
       config' = Some([Options EXCEPT
                         !.packageManager =
                            Some(detectPackageManager(@, agent))])
  /\ LET io1 == LogCall(IO, Call("debug", "Using package manager"))
         ask == Options.interactive
                /\ (Falsy(Options.name) \/ Falsy(Options.template))
     IN /\ SetIO(IF ask THEN LogCall(io1, Call("banner", "Welcome to Quapp!"))
                 ELSE io1)
        /\ pc' = IF ask THEN "prompts" ELSE "validate"
  /\ UNCHANGED <<parseVars, calls, result, exitCode, disk, effects, cancelled>>

\* lib/prompts.js runAllPrompts.  e.<question> is the user's answer to that
\* question, "cancel" when the user cancels it; e.git may also be
\* "unavailable" (git is not installed and the question is not asked).
\* The result is <<>> (null) or <<answers>>.
runAllPrompts(defaults, e) ==
  IF Falsy(defaults.name) /\ e.name = "cancel" THEN null
  ELSE IF Falsy(defaults.template) /\ "cancel" \in {e.framework, e.template}
    THEN null
  ELSE Some([name |-> IF Falsy(defaults.name) THEN Some(e.name)
                      ELSE defaults.name,
             template |-> IF Falsy(defaults.template) THEN Some(e.template)
                          ELSE defaults.template,
             git |-> IF defaults.git = null THEN Some(e.git = "yes")
                     ELSE defaults.git,
             install |-> IF defaults.install = null THEN Some(e.install = "yes")
                         ELSE defaults.install])

\* Whether the user cancelled one of the questions that were asked.
PromptCancelled(defaults, e) ==
  \/ Falsy(defaults.name) /\ e.name = "cancel"
  \/ /\ ~(Falsy(defaults.name) /\ e.name = "cancel")
     /\ \/ Falsy(defaults.template) /\ "cancel" \in {e.framework, e.template}
        \/ /\ ~(Falsy(defaults.template) /\ "cancel" \in {e.framework, e.template})
           /\ \/ defaults.git = null /\ e.git = "cancel"
              \/ defaults.install = null /\ e.install = "cancel"

PromptOutcomes ==
  [name : {"my-app", "cancel"}, framework : {"vue", "cancel"},
   template : {"vue-ts", "cancel"}, git : {"yes", "no", "cancel", "unavailable"},
   install : {"yes", "no", "cancel"}]

ScaffoldPrompts ==
  /\ pc = "prompts"
  /\ \E e \in PromptOutcomes :
       LET answers == runAllPrompts(config[1], e) IN
       /\ cancelled' = (cancelled \/ PromptCancelled(config[1], e))
       /\ IF answers = null
            THEN /\ SetIO(LogCall(IO, Call("warn", "Setup cancelled")))
                 /\ result' = Some([success |-> FALSE, cancelled |-> TRUE,
                                    exitCode |-> USER_CANCELLED])
                 /\ pc' = "mainResult"
                 /\ UNCHANGED config
            ELSE /\ config' = Some(Spread(config[1], answers[1]))
                 /\ pc' = "validate"
                 /\ UNCHANGED <<logger, stdout, stderr, result>>
  /\ UNCHANGED <<parseVars, calls, exitCode, disk, effects>>


\* lib/templates.js validateProjectName, tabulated over the names of the model
validateProjectName(name) == name \notin {"", "a/b", "node_modules"}

\* lib/templates.js validateTemplate
validateTemplate(template) == template \in ALL_TEMPLATES

ScaffoldDisks == [dir : {"absent", "empty", "nonempty"}]

\* A return of scaffold with result r.
ScaffoldReturn(io, r) ==
  /\ SetIO(io)
  /\ result' = Some(r)
  /\ pc' = "mainResult"

\* A directory check that lets every directory through.
DirNotEmptyIgnored(d, c) == FALSE

\* dirExists && !dirEmpty && !config.force
DirNotEmpty(d, c) == d.dir = "nonempty" /\ ~c.force

\* scaffold from the required-value checks to the await of cloneTemplate
\* (steps 2 and 3, the dry run, the start of step 4).
ScaffoldValidate ==
  /\ pc = "validate"
  /\ LET c == config[1] IN
     IF Falsy(c.name) THEN
       /\ ScaffoldReturn(LogAll(IO, <<Call("error", "Project name is required"),
                             Call("info", "Usage: npm create quapp <project-name> [options]")>>),
                [success |-> FALSE, errorCode |-> "MISSING_NAME",
                 error |-> "Project name is required",
                 suggestion |-> "Add project name: create-quapp my-app",
                 exitCode |-> INVALID_ARGS])
       /\ UNCHANGED disk
     ELSE IF Falsy(c.template) THEN
       /\ ScaffoldReturn(LogAll(IO, <<Call("error", "Template is required"),
                             Call("info", "Use --template <name> or run in interactive mode")>>),
                [success |-> FALSE, errorCode |-> "MISSING_TEMPLATE",
                 error |-> "Template is required",
                 suggestion |-> "Add template: --template react-ts",
                 availableTemplates |-> ALL_TEMPLATES,
                 exitCode |-> INVALID_ARGS])
       /\ UNCHANGED disk
     ELSE IF ~validateProjectName(c.name[1]) THEN
       /\ ScaffoldReturn(LogCall(IO, Call("error", "invalid project name")),
                [success |-> FALSE, errorCode |-> "INVALID_NAME",
                 error |-> "invalid project name",
                 suggestion |-> "Use only letters, numbers, hyphens, and underscores",
                 exitCode |-> INVALID_ARGS])
       /\ UNCHANGED disk
     ELSE IF ~validateTemplate(c.template[1]) THEN
       /\ ScaffoldReturn(LogAll(IO, <<Call("error", "Invalid template"),
                             Call("info", "Available templates")>>),
                [success |-> FALSE, errorCode |-> "INVALID_TEMPLATE",
                 error |-> "Invalid template",
                 suggestion |-> "Available templates",
                 exitCode |-> TEMPLATE_NOT_FOUND])
       /\ UNCHANGED disk
     ELSE
       \E d \in ScaffoldDisks :
         /\ disk' = Some(d)
         /\ LET io1 == LogCall(IO, Call("debug", "Target directory")) IN
            IF DirNotEmpty(d, c) THEN
              ScaffoldReturn(LogAll(io1, <<Call("error", "Directory already exists and is not empty"),
                                  Call("info", "Use --force to overwrite")>>),
                    [success |-> FALSE, errorCode |-> "DIR_NOT_EMPTY",
                     error |-> "Directory not empty",
                     suggestion |-> "Use --force to overwrite or choose a different name",
                     exitCode |-> GENERAL_ERROR])
            ELSE IF Options.dryRun THEN
              ScaffoldReturn(IF ~io1.logger.jsonMode
                      THEN LogAll(io1,
                             <<Call("info", "Dry run - no changes made"),
                               Call("info", "Would create"),
                               Call("info", "Location")>>
                             \o (IF ~Falsy(c.author)
                                   THEN <<Call("info", "Author")>> ELSE <<>>)
                             \o (IF c.git = Some(TRUE)
                                   THEN <<Call("info", "Would initialize git")>>
                                   ELSE <<>>)
                             \o (IF c.install = Some(TRUE)
                                   THEN <<Call("info", "Would install")>>
                                   ELSE <<>>))
                      ELSE io1,
                    [success |-> TRUE, dryRun |-> TRUE,
                     wouldCreate |->
                       [projectName |-> c.name[1], template |-> c.template[1],
                        packageManager |-> c.packageManager[1],
                        author |-> c.author, description |-> c.description,
                        gitInit |-> (c.git = Some(TRUE)),
                        installDeps |-> (c.install = Some(TRUE)),
                        overwrite |-> (d.dir = "nonempty")],
                     nextSteps |-> IF c.install /= Some(TRUE)
                                     THEN <<"cd", "install", "dev">>
                                     ELSE <<"cd", "dev">>])
            ELSE
              /\ SetIO(LogAll(io1,
                   (IF d.dir = "nonempty" /\ c.force
                      THEN <<Call("warn", "Overwriting existing directory")>>
                      ELSE <<>>)
                   \o <<Call("info", "Creating project"),
                        Call("debug", "Cloning template")>>))
              /\ pc' = "clone"
              /\ UNCHANGED result
  /\ UNCHANGED <<parseVars, calls, config, exitCode, effects, cancelled>>

ScaffoldFailPoints ==
  {"none", "cloneGit", "cloneNetwork", "package.json", "git", "install",
   "git+install"}

\* scaffold from the result of cloneTemplate to its return (steps 4 to 8).
\* fail names the external steps that fail.
ScaffoldFinish ==
  /\ pc = "clone"
  /\ \E fail \in ScaffoldFailPoints :
       LET c == config[1]
           cloned == <<Effect("clone", c.template[1])>>
       IN
       IF fail \in {"cloneGit", "cloneNetwork"} THEN
         /\ ScaffoldReturn(LogAll(IO, <<Call("error", "clone failed")>>
                             \o (IF fail = "cloneGit"
                                   THEN <<Call("info", "Please install Git")>>
                                   ELSE <<>>)),
                  [success |-> FALSE, error |-> "clone failed",
                   exitCode |-> IF fail = "cloneGit" THEN GIT_ERROR
                                ELSE NETWORK_ERROR])
         /\ UNCHANGED <<disk, effects>>
       ELSE IF fail = "package.json" THEN
         /\ ScaffoldReturn(LogAll(IO, <<Call("success", "Template cloned"),
                               Call("error", "Failed to update package.json")>>),
                  [success |-> FALSE, error |-> "Failed to update package.json",
                   exitCode |-> GENERAL_ERROR])
         /\ disk' = Some([dir |-> "nonempty"])
         /\ effects' = effects \o cloned
       ELSE
         LET gitOk == c.git = Some(TRUE) /\ fail \notin {"git", "git+install"}
             depsOk == c.install = Some(TRUE)
                       /\ fail \notin {"install", "git+install"}
         IN
         /\ ScaffoldReturn(LogAll(IO,
                    <<Call("success", "Template cloned"),
                      Call("success", "Updated package.json")>>
                    \o (IF c.git = Some(TRUE)
                          THEN IF gitOk
                                 THEN <<Call("success", "Initialized git repository")>>
                                 ELSE <<Call("warn", "Git initialization failed")>>
                          ELSE IF c.git = Some(FALSE)
                            THEN <<Call("debug", "Skipping git initialization (--no-git)")>>
                            ELSE <<>>)
                    \o (IF c.install = Some(TRUE)
                          THEN <<Call("info", "Installing dependencies...")>>
                               \o (IF depsOk
                                     THEN <<Call("success", "Dependencies installed")>>
                                     ELSE <<Call("warn", "Failed to install dependencies"),
                                            Call("info", "Run the install manually")>>)
                          ELSE IF c.install = Some(FALSE)
                            THEN <<Call("debug", "Skipping dependency installation (--no-install)")>>
                            ELSE <<>>)
                    \o <<Call("nextSteps", "Next steps")>>),
                  [success |-> TRUE,
                   projectName |-> c.name[1], projectPath |-> "cwd/name",
                   template |-> c.template[1], framework |-> "framework",
                   author |-> c.author, description |-> c.description,
                   packageManager |-> c.packageManager[1],
                   gitInitialized |-> gitOk,
                   dependenciesInstalled |-> depsOk,
                   nextSteps |-> IF depsOk THEN <<"cd", "dev">>
                                 ELSE <<"cd", "install", "dev">>])
         /\ disk' = Some([dir |-> "nonempty"])
         /\ effects' = effects \o cloned
                       \o <<Effect("write", "package.json")>>
                       \o (IF gitOk THEN <<Effect("exec", "git init")>> ELSE <<>>)
                       \o (IF depsOk THEN <<Effect("exec", "install")>> ELSE <<>>)
  /\ UNCHANGED <<parseVars, calls, config, exitCode, cancelled>>

\* outputJson({success: result.success, ...result, duration}) and the exit
CreateMainResult ==
  /\ prog = "create" /\ pc = "mainResult"
  /\ SetIO(IF args.json
             THEN outputJson(IO, Spread(result[1], [duration |-> "ms"]))
             ELSE IO)
  /\ Exit(ExitCodeOf(result[1]))
  /\ UNCHANGED <<parseVars, calls, config, result, disk, effects, cancelled>>

Next ==
  \/ QuappParseToken
  \/ QuappParseReturn
  \/ LegacyParseToken
  \/ LegacyParseReturn
  \/ QuappMainHelp
  \/ QuappMainVersion
  \/ QuappMainInit
  \/ QuappMainArgErrors
  \/ QuappMainNoCommand
  \/ QuappMainDispatch
  \/ RunServe
  \/ RunBuild
  \/ RunInit
  \/ QuappMainResult
  \/ CreateParseToken
  \/ CreateParseReturn
  \/ CreateMainHelp
  \/ CreateMainVersion
  \/ CreateMainInit
  \/ CreateMainArgErrors
  \/ CreateMainScaffold
  \/ Sigint
  \/ ScaffoldStart
  \/ ScaffoldPrompts
  \/ ScaffoldValidate
  \/ ScaffoldFinish
  \/ CreateMainResult

Spec == Init /\ [][Next]_vars

(***************************************************************************)
(* Properties                                                              *)
(***************************************************************************)
Range(s) == { s[n] : n \in DOMAIN s }

\* The JSON documents on standard output, in order.
JsonDocs == SelectSeq(stdout, LAMBDA c : c.kind = "json")

\* Parsing and validation are over: args is what parseArgs returned.
Parsed == pc /= "parse"

\* The command-specific flags of the dev tool: the flag, the command that
\* owns it, and whether the parsed arguments have it set.
FlagOwners(a) ==
  { <<"--port", "serve", a.port /= null>>,
    <<"--host", "serve", a.host /= null>>,
    <<"--no-qr", "serve", a.qr = FALSE>>,
    <<"--open", "serve", a.open>>,
    <<"--https", "serve", a.https>>,
    <<"--output", "build", a.output /= null>>,
    <<"--no-clean", "build", a.clean = FALSE>>,
    <<"--skip-prompts", "build", a.skipPrompts>>,
    <<"--yes", "init", a.yes>>,
    <<"--force", "init", a.force>>,
    <<"--dry-run", "init", a.dryRun>> }

\* The flags that are set although another command is selected.
Misplaced(a) ==
  { f \in FlagOwners(a) : f[3] /\ a.command /= null /\ a.command /= Some(f[2]) }

ScopingErrorFor(f) ==
  [text |-> "is only valid for command", token |-> f[1], other |-> f[2]]

C2_OutputModes ==
  pc = "exit" =>
    IF args.json
      THEN Len(stdout) = 1 /\ stdout[1].kind = "json"
      ELSE Len(JsonDocs) = 0

\* C3 (as amended): when the parse yields errors and neither --help nor
\* --version was given, the exit code is INVALID_ARGS (2) and no handler is
\* invoked; `serve --port abc` gives one "Invalid port" error, port unset,
\* exit code 2 and no handler.
C3_ArgumentErrorsExit ==
  /\ (pc = "exit" /\ Len(args.errors) > 0 /\ ~args.help /\ ~args.version
        => exitCode = Some(2) /\ calls = <<>>)
  /\ (IsQuapp /\ argv = <<"serve", "--port", "abc">> /\ pc = "exit"
        => /\ args.errors = <<[text |-> "Invalid port. Must be 1-65535",
                               token |-> "abc", other |-> ""]>>
           /\ args.port = null
           /\ exitCode = Some(2)
           /\ calls = <<>>)

\* C3 as stated: errors in the parse always give exit code 2 and no handler.
C3_AsStated ==
  pc = "exit" /\ Len(args.errors) > 0 => exitCode = Some(2) /\ calls = <<>>

\* `serve --port abc` has ended with its one error and exit code 2.
C3_Witness ==
  /\ prog = "quapp" /\ argv = <<"serve", "--port", "abc">> /\ pc = "exit"
  /\ Len(args.errors) = 1 /\ args.errors[1].token = "abc"
  /\ exitCode = Some(2) /\ calls = <<>>

\* The value-taking flags of a tool, the name the diagnostics use for each
\* and the field each one sets.
ValueFlags(p) ==
  IF p = "create"
    THEN {"-t", "--template", "-a", "--author", "-d", "--description", "--pm"}
    ELSE {"-p", "--port", "--host", "-o", "--output"}

Canonical(t) ==
  CASE t \in {"-p", "--port"}        -> "--port"
    [] t = "--host"                  -> "--host"
    [] t \in {"-o", "--output"}      -> "--output"
    [] t \in {"-t", "--template"}    -> "--template"
    [] t \in {"-a", "--author"}      -> "--author"
    [] t \in {"-d", "--description"} -> "--description"
    [] t = "--pm"                    -> "--pm"

FieldOf(t) ==
  CASE t \in {"-p", "--port"}        -> "port"
    [] t = "--host"                  -> "host"
    [] t \in {"-o", "--output"}      -> "output"
    [] t \in {"-t", "--template"}    -> "template"
    [] t \in {"-a", "--author"}      -> "author"
    [] t \in {"-d", "--description"} -> "description"
    [] t = "--pm"                    -> "packageManager"

\* C4: in the dev tool's parser and in the scaffolder's, the iteration that
\* reads a value-taking flag which is the last token or is followed by a
\* token starting with '-' appends exactly one "requires a value" error
\* naming the flag, leaves the flag's field as it was and moves the cursor by
\* one token only.
C4_AritySafety ==
  [][ (/\ prog \in {"quapp", "create"} /\ pc = "parse" /\ i < Len(argv)
       /\ argv[i + 1] \in ValueFlags(prog)
       /\ (i + 1 >= Len(argv) \/ StartsWithDash(argv[i + 2])))
      => /\ i' = i + 1
         /\ args'.errors = Append(args.errors,
                                  [text |-> "requires a value",
                                   token |-> Canonical(argv[i + 1]),
                                   other |-> ""])
         /\ args'[FieldOf(argv[i + 1])] = args[FieldOf(argv[i + 1])] ]_vars

KnownFlags(p) == IF p = "create" THEN CreateFlagTokens ELSE QuappFlagTokens

\* C5: in both tools, every token that starts with '-' and matches no flag
\* alias yields an unknown-flag error naming it, wherever it stands, and is
\* never passed on to the dev-server process.
C5_UnknownTokens ==
  Parsed =>
    \A k \in 1..Len(argv) :
      StartsWithDash(argv[k]) /\ argv[k] \notin KnownFlags(prog) =>
        /\ \E e \in Range(args.errors) :
             e.token = argv[k] /\ e.text \in {"Unknown flag", "Unknown option"}
        /\ \A fx \in Range(effects) :
             fx.op = "spawn" => argv[k] \notin Range(fx.target.extra)

\* C6: in both tools, when a handler returned a Command Result, the exit
\* code is SUCCESS (0) when success is true, else the exitCode the result
\* carries when it carries one, else GENERAL_ERROR (1).
C6_ExitCodeOfResult ==
  pc = "exit" /\ result /= null =>
    exitCode = Some(IF result[1].success THEN 0
                    ELSE IF "exitCode" \in DOMAIN result[1]
                      THEN result[1].exitCode
                    ELSE 1)

\* A handler failed with the explicit code CONFIG_ERROR and the run ended
\* with it.
C6_Witness ==
  /\ pc = "exit" /\ result /= null
  /\ ~result[1].success
  /\ "exitCode" \in DOMAIN result[1] /\ result[1].exitCode = 4
  /\ exitCode = Some(4)

\* C7: whenever the user declined a confirmation, cancelled a prompt or
\* interrupted the run, the run ends with USER_CANCELLED (130), none of the
\* handler's work is performed, and in automation mode the JSON document
\* carries cancelled: true and no error field.
C7_Cancellation ==
  pc = "exit" /\ cancelled =>
    /\ exitCode = Some(130)
    /\ effects = <<>>
    /\ (args.json =>
          /\ Len(JsonDocs) > 0
          /\ LET doc == JsonDocs[Len(JsonDocs)].body IN
             /\ "cancelled" \in DOMAIN doc /\ doc.cancelled = TRUE
             /\ "error" \notin DOMAIN doc)

\* C8: every JSON document written in automation mode contains success, and
\* every document with success = false that reports a failure (not a
\* cancellation) contains error, errorCode and suggestion.
C8_JsonFailureSchema ==
  \A c \in Range(JsonDocs) :
    /\ "success" \in DOMAIN c.body
    /\ (~c.body.success /\ "cancelled" \notin DOMAIN c.body
          => {"error", "errorCode", "suggestion"} \subseteq DOMAIN c.body)

\* The parsed flag values the handler of the selected command is given.
ParsedOptionsGiven(o, a) ==
  CASE a.command = Some("serve") ->
         /\ o.port = a.port /\ o.host = a.host /\ o.qr = a.qr
         /\ o.open = a.open /\ o.https = a.https /\ o.extra = a.extra
    [] a.command = Some("build") ->
         o.output = a.output /\ o.clean = a.clean
         /\ o.skipPrompts = a.skipPrompts
    [] a.command = Some("init") ->
         /\ o.force = a.force /\ o.yes = a.yes /\ o.dryRun = a.dryRun
         /\ o.skipPrompts = a.skipPrompts

HandlerNameOf(a) ==
  CASE a.command = Some("serve") -> "runServe"
    [] a.command = Some("build") -> "runBuild"
    [] a.command = Some("init")  -> "runInit"

\* C9: a dev-tool run whose parse has no errors, selects a command and asks
\* for neither help nor version invokes exactly one handler, that of the
\* selected command, once, with the parsed flag values; no JSON document is
\* written while the handler runs, and in automation mode the run ends with
\* the handler's result as the one JSON document, containing success,
\* written last.  [build, -o, app, --skip-prompts, --json] parses to
\* command = build, output = app, skipPrompts = true, json = true, no errors.
C9_SingleDispatch ==
  /\ (IsQuapp /\ pc \in {"runServe", "runBuild", "runInit"}
        => Len(calls) = 1 /\ Len(JsonDocs) = 0)
  /\ ((/\ IsQuapp /\ pc = "exit" /\ args.errors = <<>> /\ args.command /= null
       /\ ~args.help /\ ~args.version)
        => /\ Len(calls) = 1
           /\ calls[1].handler = HandlerNameOf(args)
           /\ ParsedOptionsGiven(calls[1].options, args)
           /\ result /= null
           /\ (args.json =>
                 /\ Len(JsonDocs) = 1
                 /\ stdout[Len(stdout)] = JsonDocs[1]
                 /\ "success" \in DOMAIN JsonDocs[1].body
                 /\ \A k \in DOMAIN result[1] :
                      JsonDocs[1].body[k] = result[1][k]))
  /\ ((/\ prog = "quapp" /\ Parsed
       /\ argv = <<"build", "-o", "app", "--skip-prompts", "--json">>)
        => /\ args.command = Some("build") /\ args.output = Some("app")
           /\ args.skipPrompts /\ args.json /\ args.errors = <<>>)

\* The scenario [build, -o, app, --skip-prompts, --json] has ended: runBuild
\* was called once with output app and skipPrompts, and the last chunk on
\* standard output is its result as JSON.
C9_Witness ==
  /\ prog = "quapp" /\ pc = "exit"
  /\ argv = <<"build", "-o", "app", "--skip-prompts", "--json">>
  /\ Len(calls) = 1 /\ calls[1].handler = "runBuild"
  /\ calls[1].options.output = Some("app") /\ calls[1].options.skipPrompts
  /\ Len(stdout) > 0 /\ stdout[Len(stdout)].kind = "json"
  /\ stdout[Len(stdout)].body.success

ScopingErrors(a) ==
  { e \in Range(a.errors) : e.text = "is only valid for command" }

\* C10 (as amended): in the dev tool, when no command is selected no scoping
\* error is appended whatever command-specific flags are set; and when the
\* errors list is then empty the caller prints the help text, or the version
\* when --version was given without --help, and exits with code 0 without
\* invoking a handler.
C10_AbsentCommand ==
  IsQuapp /\ Parsed /\ args.command = null =>
    /\ ScopingErrors(args) = {}
    /\ (pc = "exit" /\ args.errors = <<>>
          => /\ stdout = <<Text(IF args.version /\ ~args.help
                                  THEN "getVersion()" ELSE "getHelpText()")>>
             /\ exitCode = Some(0)
             /\ calls = <<>>)

\* C10 as stated: with no command and no errors the caller shows help.
C10_AsStated ==
  IsQuapp /\ Parsed /\ args.command = null =>
    /\ ScopingErrors(args) = {}
    /\ (pc = "exit" /\ args.errors = <<>>
          => /\ stdout = <<Text("getHelpText()")>>
             /\ exitCode = Some(0)
             /\ calls = <<>>)

\* `--port 3000` without a command has ended: the serve-only flag is set, no
\* error was recorded, help was shown and the exit code is 0.
C10_Witness ==
  /\ prog = "quapp" /\ argv = <<"--port", "3000">> /\ pc = "exit"
  /\ args.command = null /\ args.port = Some(3000) /\ args.errors = <<>>
  /\ stdout = <<Text("getHelpText()")>>
  /\ exitCode = Some(0) /\ calls = <<>>

\* The positions of argv (1-based) holding one of the aliases `flags`.  The
\* dev tool's parser never takes a token starting with '-' as a value, so each
\* of them is read as a flag.
Occurrences(flags) == { k \in 1..Len(argv) : argv[k] \in flags }

\* The value occurrence k of --port stores when it is parsed on its own:
\* <<>> when it has no value or an invalid one.
PortStoredBy(k) ==
  IF k >= Len(argv) \/ StartsWithDash(argv[k + 1]) THEN null
  ELSE LET port == ParseInt(argv[k + 1]) IN
       IF port = null \/ port[1] < 1 \/ port[1] > 65535 THEN null ELSE port

\* The same for a flag whose value is stored as it is (--host, --output).
TextStoredBy(k) ==
  IF k >= Len(argv) \/ StartsWithDash(argv[k + 1]) THEN null
  ELSE Some(argv[k + 1])

Last(S) == CHOOSE k \in S : \A m \in S : m <= k

\* The value of the last occurrence in S that stores one; <<>> when none does.
LastWrite(S, StoredBy(_)) ==
  LET W == { k \in S : StoredBy(k) /= null } IN
  IF W = {} THEN null ELSE StoredBy(Last(W))

\* The value of the last occurrence in S alone; <<>> when S is empty.
LastOccurrence(S, StoredBy(_)) == IF S = {} THEN null ELSE StoredBy(Last(S))

\* The errors about the value of `flag` (named `canonical` in diagnostics).
ValueErrors(canonical) ==
  { n \in DOMAIN args.errors :
      \/ args.errors[n].text = "requires a value"
         /\ args.errors[n].token = canonical
      \/ canonical = "--port"
         /\ args.errors[n].text = "Invalid port. Must be 1-65535" }

Numeric(t) == t \in {"3000", "4000", "99999", "65535", "65536", "1", "0", "-5"}

\* A value that is no port: not a number, or a number outside 1..65535.
InvalidPortValue(t) ==
  ~Numeric(t) \/ ParseInt(t)[1] < 1 \/ ParseInt(t)[1] > 65535

\* C12: in both dev-tool parsers, the iteration that reads --port/-p followed
\* by a value that is non-numeric or outside 1..65535 appends exactly one
\* error mentioning "1-65535" and does not store the value; so the port field
\* is always unset or an integer in 1..65535.  (Stated for values that do not
\* start with '-'.)
C12_PortRange ==
  [][ IsQuapp =>
        /\ (args'.port = null \/ args'.port[1] \in 1..65535)
        /\ ((/\ pc = "parse" /\ i + 1 < Len(argv)
             /\ argv[i + 1] \in {"-p", "--port"}
             /\ ~StartsWithDash(argv[i + 2])
             /\ InvalidPortValue(argv[i + 2]))
            => /\ Len(args'.errors) = Len(args.errors) + 1
               /\ args'.errors[Len(args'.errors)].text
                    = "Invalid port. Must be 1-65535"
               /\ args'.port = args.port) ]_vars

\* The value of an enable/disable pair as its last token in argv gives it:
\* <<>> (unset) when no token of the pair occurs.
PairValue(on, off) ==
  LET S == Occurrences(on \cup off) IN
  IF S = {} THEN null ELSE Some(argv[Last(S)] \in on)

\* C13: `--no-qr` gives qr = false and `--no-clean` gives clean = false
\* although no enabling flag exists; in the scaffolder the value of git and of
\* install is that of whichever token of the pair --git/-g, --no-git
\* (--install/-i, --no-install) occurs last, and unset when none occurs.
C13_NegationPairing ==
  Parsed =>
    /\ (prog = "quapp" =>
          /\ ("--no-qr" \in Range(argv) => args.qr = FALSE)
          /\ ("--no-clean" \in Range(argv) => args.clean = FALSE))
    /\ (prog = "create" =>
          /\ args.git = PairValue({"-g", "--git"}, {"--no-git"})
          /\ args.install = PairValue({"-i", "--install"}, {"--no-install"}))

(***************************************************************************)
(* The logger module on its own: a client that calls its exported          *)
(* functions in any order.  `calls` records the calls made so far.         *)
(***************************************************************************)
MaxCalls == 4

LoggerFns ==
  {"info", "success", "warn", "error", "debug", "step", "newline", "banner",
   "nextSteps"}

LoggerResults ==
  { [success |-> TRUE],
    [success |-> FALSE, errorCode |-> "E", error |-> "failed"] }

LoggerInit ==
  /\ prog \in {"quapp", "create"}
  /\ argv = <<>>
  /\ i = 0
  /\ args = IF prog = "create" THEN CreateArgs0 ELSE QuappArgs0
  /\ pc = "logger"
  /\ logger = Logger0
  /\ stdout = <<>>
  /\ stderr = <<>>
  /\ calls = <<>>
  /\ config = null
  /\ result = null
  /\ exitCode = null
  /\ disk = null
  /\ effects = <<>>
  /\ cancelled = FALSE

loggerFrame ==
  <<prog, argv, i, args, pc, config, result, exitCode, disk, effects,
    cancelled>>

\* initLogger({ json, verbose })
LoggerInitLogger ==
  /\ pc = "logger"
  /\ Len(calls) < MaxCalls
  /\ \E json \in BOOLEAN, verbose \in BOOLEAN :
       /\ SetIO(initLogger(IO, json, verbose))
       /\ calls' = Append(calls, Call("initLogger",
                                      [json |-> json, verbose |-> verbose]))
  /\ UNCHANGED loggerFrame

\* info/success/warn/error/debug/step/newline/banner/nextSteps(message);
\* banner and nextSteps exist in the scaffolder's logger only.
LoggerLog ==
  /\ pc = "logger"
  /\ Len(calls) < MaxCalls
  /\ \E fn \in LoggerFns :
       /\ fn \in {"banner", "nextSteps"} => prog = "create"
       /\ SetIO(LogCall(IO, Call(fn, "message")))
       /\ calls' = Append(calls, Call(fn, "message"))
  /\ UNCHANGED loggerFrame

\* outputJson(result)
LoggerOutputJson ==
  /\ pc = "logger"
  /\ Len(calls) < MaxCalls
  /\ \E r \in LoggerResults :
       /\ SetIO(LogCall(IO, Call("outputJson", r)))
       /\ calls' = Append(calls, Call("outputJson", r))
  /\ UNCHANGED loggerFrame

LoggerNext ==
  \/ LoggerInitLogger
  \/ LoggerLog
  \/ LoggerOutputJson

LoggerSpec == LoggerInit /\ [][LoggerNext]_vars

\* C14: in JSON mode every info/success/warn/error/step call appends one
\* entry to the buffer and writes nothing to standard output or standard
\* error; a debug call is buffered only when verbose is set too; the document
\* outputJson writes has a `logs` array (the buffer) exactly when verbose is
\* set; initLogger empties the buffer.
C14_LogBuffering ==
  [][ (pc = "logger" /\ Len(calls') = Len(calls) + 1) =>
        LET c == calls'[Len(calls')] IN
        /\ (c.fn = "initLogger" =>
              /\ logger'.logs = <<>>
              /\ logger'.jsonMode = c.msg.json
              /\ logger'.verboseMode = c.msg.verbose)
        /\ ((logger.jsonMode
               /\ c.fn \in {"info", "success", "warn", "error", "step"}) =>
              /\ logger'.logs = Append(logger.logs, Entry(c.fn, c.msg))
              /\ stdout' = stdout
              /\ stderr' = stderr)
        /\ ((logger.jsonMode /\ c.fn = "debug") =>
              /\ logger'.logs = IF logger.verboseMode
                                  THEN Append(logger.logs, Entry("debug", c.msg))
                                  ELSE logger.logs
              /\ stdout' = stdout
              /\ stderr' = stderr)
        /\ ((logger.jsonMode /\ c.fn = "outputJson") =>
              /\ stdout' = Append(stdout, stdout'[Len(stdout')])
              /\ stderr' = stderr
              /\ stdout'[Len(stdout')].kind = "json"
              /\ ("logs" \in DOMAIN stdout'[Len(stdout')].body)
                   <=> logger.verboseMode
              /\ (logger.verboseMode =>
                    stdout'[Len(stdout')].body.logs = logger.logs)) ]_vars

\* A verbose JSON-mode client has logged an error, nothing reached standard
\* error, and the one document on standard output carries the buffer.
C14_Witness ==
  /\ pc = "logger"
  /\ logger.jsonMode /\ logger.verboseMode
  /\ \E n \in DOMAIN logger.logs : logger.logs[n].level = "error"
  /\ stderr = <<>>
  /\ Len(stdout) = 1
  /\ stdout[1].kind = "json"
  /\ "logs" \in DOMAIN stdout[1].body
  /\ stdout[1].body.logs = logger.logs

\* The scaffolder was given --template <name> with a name outside
\* ALL_TEMPLATES (the flag is in flag position, the name is its value).
UnknownTemplateGiven ==
  \E k \in 1..Len(argv) - 1 :
    /\ argv[k] \in {"-t", "--template"}
    /\ (k = 1 \/ argv[k - 1] \notin ValueFlags("create"))
    /\ ~StartsWithDash(argv[k + 1])
    /\ argv[k + 1] \notin ALL_TEMPLATES

\* C15: a scaffolder run that was given a template name outside the closed
\* enumeration (and is not a --help or --version run) ends with exit code 3,
\* TEMPLATE_NOT_FOUND.
C15_TemplateNotFoundExit ==
  (/\ prog = "create" /\ pc = "exit"
   /\ ~args.help /\ ~args.version
   /\ UnknownTemplateGiven)
  => exitCode = Some(TEMPLATE_NOT_FOUND)

\* A run that asked for a dry run: the scaffolder, or `quapp init`, with
\* --dry-run, once the arguments are parsed.
DryRunRequested ==
  /\ Parsed
  /\ args.dryRun
  /\ \/ prog = "create"
     \/ IsQuapp /\ args.command = Some("init")

\* C16: in a run with --dry-run no step of the scaffolder or of `quapp init`
\* performs a file-system or process effect (clone, write of package.json or
\* quapp.config.json, git init, install), the scaffolder never reaches the
\* clone, and the disk stays as it was found.
C16_DryRunChangesNothing ==
  [][ DryRunRequested =>
        /\ effects' = <<>>
        /\ pc' /= "clone"
        /\ (disk /= null => disk' = disk) ]_vars

\* A scaffolder dry run over an existing directory has returned its preview.
C16_Witness ==
  /\ prog = "create" /\ pc = "exit"
  /\ args.dryRun
  /\ disk /= null
  /\ result /= null /\ result[1].success
  /\ "dryRun" \in DOMAIN result[1]
  /\ exitCode = Some(SUCCESS)
  /\ effects = <<>>

\* C17: in a scaffolder run with --yes the options handed to scaffold have
\* interactive = false, template = the given template or "react", git and
\* install = the given value or false (never unset); the prompts are never
\* run; and a run without a project name ends with errorCode MISSING_NAME
\* and exit code 2.
C17_YesIsNonInteractive ==
  (prog = "create" /\ Parsed /\ args.yes) =>
    /\ pc /= "prompts"
    /\ (calls /= <<>> =>
          /\ Options.interactive = FALSE
          /\ Options.template = (IF args.template /= null THEN args.template
                                 ELSE Some("react"))
          /\ Options.git = (IF args.git /= null THEN args.git ELSE Some(FALSE))
          /\ Options.install = (IF args.install /= null THEN args.install
                                ELSE Some(FALSE)))
    /\ ((pc = "exit" /\ calls /= <<>> /\ args.projectName = null) =>
          /\ result /= null
          /\ "errorCode" \in DOMAIN result[1]
          /\ result[1].errorCode = "MISSING_NAME"
          /\ exitCode = Some(INVALID_ARGS))

\* `create-quapp --yes --git` has run: git as given, the rest defaulted, and
\* the run failed for the missing name.
C17_Witness ==
  /\ prog = "create" /\ pc = "exit"
  /\ args.yes /\ args.projectName = null
  /\ args.git = Some(TRUE) /\ args.install = null /\ args.template = null
  /\ calls /= <<>>
  /\ Options.git = Some(TRUE) /\ Options.install = Some(FALSE)
  /\ Options.template = Some("react")
  /\ exitCode = Some(INVALID_ARGS)

(***************************************************************************)
(* The parsers on their own, scheduled fairly: parseArgs is a synchronous  *)
(* loop, so an iteration that can run does run.                            *)
(***************************************************************************)
ParseNext ==
  \/ QuappParseToken
  \/ QuappParseReturn
  \/ LegacyParseToken
  \/ LegacyParseReturn
  \/ CreateParseToken
  \/ CreateParseReturn

ParseSpec == Init /\ [][ParseNext]_vars /\ WF_vars(ParseNext)

\* C18: every iteration of a parser moves the cursor forward by one or by
\* two, by two only at a value-taking flag (the flag and the one token after
\* it), never loses a recorded error and goes on parsing whatever errors are
\* recorded; the parser returns only when the cursor has passed the last
\* token, and it does return on every input.
C18_ParserTotality ==
  /\ [][ pc = "parse" =>
           /\ (i < Len(argv) =>
                 /\ pc' = "parse"
                 /\ i' \in {i + 1, i + 2}
                 /\ (i' = i + 2 => argv[i + 1] \in ValueFlags(prog))
                 /\ i' <= Len(argv) + 1
                 /\ Len(args'.errors) >= Len(args.errors))
           /\ (i >= Len(argv) => pc' = "main" /\ i' = i) ]_vars
  /\ <>(pc = "main")

\* The strict parser recorded an error at the first token and still parsed
\* the command behind it, up to the end of the input.
C18_Witness ==
  /\ prog = "quapp" /\ pc = "main"
  /\ Len(argv) >= 2
  /\ argv[1] = "--bogus"
  /\ Len(args.errors) > 0
  /\ args.command = Some(argv[2])
  /\ i = Len(argv)

\* C19: validateCommandFlags is idempotent: applied to the result parseArgs
\* returned (which it has validated once already), it leaves the errors list
\* as it is.
C19_ValidatorIdempotent ==
  (prog = "quapp" /\ Parsed) =>
    validateCommandFlags(args).errors = args.errors

\* A token that is a negative number.
NegativeNumber(t) ==
  StartsWithDash(t) /\ ParseInt(t) /= null /\ ParseInt(t)[1] < 0

\* C20: in the strict parser a negative number after --port/-p is taken as
\* the port's value (the cursor moves past both tokens) and fails the range
\* check, it is not handled as a flag; after --host and --output/-o a token
\* that begins with '-' is never taken as the value.
C20_NegativeNumbers ==
  [][ (prog = "quapp" /\ pc = "parse" /\ i + 1 < Len(argv)) =>
        /\ ((argv[i + 1] \in {"-p", "--port"} /\ NegativeNumber(argv[i + 2])) =>
              /\ i' = i + 2
              /\ Len(args'.errors) = Len(args.errors) + 1
              /\ args'.errors[Len(args'.errors)].text
                   = "Invalid port. Must be 1-65535"
              /\ args'.port = args.port)
        /\ ((argv[i + 1] \in {"--host", "-o", "--output"}
               /\ StartsWithDash(argv[i + 2])) =>
              /\ i' = i + 1
              /\ args'.host = args.host
              /\ args'.output = args.output) ]_vars

(***************************************************************************)
(* runServe step by step (commands/serve.js): the variant that probes for  *)
(* a free port before it starts the dev server ("serveProbe", lines        *)
(* 430-652) and the variant that re-invokes itself with the next port when *)
(* the dev server exits with a non-zero code ("serveRetry", lines 36-178). *)
(* calls: the invocations of runServe; config: config.server as loadConfig *)
(* returned it; disk.busy: how many consecutive ports from the start port  *)
(* are in use; i: `retries` of findAvailablePort; effects: the spawns.     *)
(***************************************************************************)
MaxBusyPorts == 11

\* args.port as parseArgs stores it: null or an integer in 1..65535.
ServePorts == {null, Some(3000), Some(65535)}

\* server.port of quapp.config.json: whatever number the file holds.
ConfigPorts == {DEFAULT_PORT, 0, 65535, 70000}

ServeConfigs == [port : ConfigPorts, autoRetry : BOOLEAN, strictPort : BOOLEAN]

ServeEnvs == [busy : 0..MaxBusyPorts, vite : BOOLEAN]

ServeInit ==
  /\ prog \in {"serveProbe", "serveRetry"}
  /\ argv = <<>>
  /\ i = 0
  /\ args = QuappArgs0
  /\ pc = "runServe"
  /\ logger = Logger0
  /\ stdout = <<>>
  /\ stderr = <<>>
  /\ calls \in { << [handler |-> "runServe",
                     options |-> [port |-> p, attempt |-> 0]] >> :
                 p \in ServePorts }
  /\ config \in { Some(c) : c \in ServeConfigs }
  /\ result = null
  /\ exitCode = null
  /\ disk \in { Some(d) : d \in ServeEnvs }
  /\ effects = <<>>
  /\ cancelled = FALSE

serveFrame == <<prog, argv, args, config, exitCode, disk, cancelled>>

\* serverConfig.port: options.port || config.server.port
ServerConfigPort(o, c) ==
  IF o.port /= null /\ o.port[1] /= 0 THEN o.port[1] ELSE c.port

\* net's server.listen(port) throws ERR_SOCKET_BAD_PORT outside 0..65535.
ListenAccepts(port) == port \in 0..65535

\* A retry that is not bounded by the attempt count.
RetryAlways(o, c) == c.autoRetry

\* config.server.autoRetry && options._attempt < 10
RetryAllowed(o, c) == c.autoRetry /\ o.attempt < 10

ServeReturn(io, r) ==
  /\ SetIO(io)
  /\ result' = Some(r)
  /\ pc' = "mainResult"

\* spawn('npx', ['vite', '--host', host, '--port', String(port), ...])
ServeSpawn(port) ==
  /\ SetIO(LogCall(IO, Call("debug", "Starting dev server")))
  /\ effects' = Append(effects, Effect("spawn", [port |-> port]))
  /\ pc' = "spawned"
  /\ UNCHANGED result

\* runServe from its entry to the port search or to the spawn.
ServeEnter ==
  /\ pc = "runServe"
  /\ LET start == ServerConfigPort(Options, config[1]) IN
     IF ~disk[1].vite THEN
       /\ ServeReturn(LogAll(IO, <<Call("error", "Vite is not installed"),
                                   Call("info", "Run npm install to install dependencies first.")>>),
                      [success |-> FALSE, error |-> "Vite not found",
                       exitCode |-> MISSING_DEPENDENCY])
       /\ UNCHANGED <<i, effects>>
     ELSE IF prog = "serveProbe" /\ config[1].autoRetry /\ ~config[1].strictPort
       THEN /\ pc' = "probe"
            /\ i' = 0
            /\ UNCHANGED <<logger, stdout, stderr, result, effects>>
       ELSE /\ ServeSpawn(start)
            /\ UNCHANGED i
  /\ UNCHANGED <<serveFrame, calls>>

\* findAvailablePort: the probed port is in use; port++, retries++
ProbeBusy ==
  /\ pc = "probe" /\ i < maxAttempts
  /\ ListenAccepts(ServerConfigPort(Options, config[1]) + i)
  /\ i < disk[1].busy
  /\ SetIO(LogCall(IO, Call("info", "Port is in use, trying next")))
  /\ i' = i + 1
  /\ UNCHANGED <<serveFrame, calls, pc, result, effects>>

\* findAvailablePort: return { port, retries }, and the spawn on that port
ProbeFound ==
  /\ pc = "probe" /\ i < maxAttempts
  /\ ListenAccepts(ServerConfigPort(Options, config[1]) + i)
  /\ i >= disk[1].busy
  /\ ServeSpawn(ServerConfigPort(Options, config[1]) + i)
  /\ UNCHANGED <<serveFrame, calls, i>>

\* findAvailablePort throws (no port after maxAttempts probes, or listen
\* refuses the port number); runServe catches and returns the failure.
ProbeThrows ==
  /\ pc = "probe"
  /\ \/ i >= maxAttempts
     \/ ~ListenAccepts(ServerConfigPort(Options, config[1]) + i)
  /\ ServeReturn(LogCall(IO, Call("error", "Could not find an available port")),
                 [success |-> FALSE, error |-> "Could not find an available port",
                  exitCode |-> GENERAL_ERROR])
  /\ UNCHANGED <<serveFrame, calls, i, effects>>

\* viteProcess.on('close'), code !== 0: resolve(runServe({...options,
\* port: serverConfig.port + 1, _attempt: _attempt + 1}))
ServeCloseRetry ==
  /\ pc = "spawned" /\ prog = "serveRetry"
  /\ RetryAllowed(Options, config[1])
  /\ SetIO(LogCall(IO, Call("warn", "Port in use. Trying next port...")))
  /\ calls' = Append(calls,
       [handler |-> "runServe",
        options |-> [port |-> Some(ServerConfigPort(Options, config[1]) + 1),
                     attempt |-> Options.attempt + 1]])
  /\ pc' = "runServe"
  /\ UNCHANGED <<serveFrame, i, result, effects>>

\* viteProcess.on('close') without a retry, and viteProcess.on('error')
ServeClose ==
  /\ pc = "spawned"
  /\ \E close \in {"ok", "failed", "error"} :
       /\ close = "failed" =>
            ~(prog = "serveRetry" /\ RetryAllowed(Options, config[1]))
       /\ CASE close = "ok" ->
                 ServeReturn(IO, [success |-> TRUE,
                                  lanUrl |-> effects[Len(effects)].target,
                                  localUrl |-> effects[Len(effects)].target])
            [] close = "failed" ->
                 ServeReturn(IO, [success |-> FALSE,
                                  error |-> "Dev server exited with code",
                                  exitCode |-> GENERAL_ERROR])
            [] close = "error" ->
                 ServeReturn(LogCall(IO, Call("error", "Failed to start dev server")),
                             [success |-> FALSE, error |-> "spawn error",
                              exitCode |-> GENERAL_ERROR])
  /\ UNCHANGED <<serveFrame, calls, i, effects>>

ServeNext ==
  \/ ServeEnter
  \/ ProbeBusy
  \/ ProbeFound
  \/ ProbeThrows
  \/ ServeCloseRetry
  \/ ServeClose

\* The dev server is a child process that ends (or is ended); every other
\* step is runServe's own code.
ServeSpec == ServeInit /\ [][ServeNext]_vars /\ WF_vars(ServeNext)

\* The port the first invocation of runServe starts from.
StartPort == ServerConfigPort(calls[1].options, config[1])

ServeRun == prog \in {"serveProbe", "serveRetry"}

C29_SpawnedPortInRange ==
  ServeRun =>
    \A n \in DOMAIN effects :
      effects[n].op = "spawn" => effects[n].target.port \in 1..65535

(***************************************************************************)
(* Unexpected faults: a handler that is pending rejects (a file-system     *)
(* call or a child process throws) and main().catch runs.                  *)
(***************************************************************************)
\* The document main().catch prints with console.log(JSON.stringify(...)):
\* JSON.stringify drops the undefined stack.
FaultDocument ==
  IF "--verbose" \in Range(argv)
    THEN [success |-> FALSE, error |-> "err.message", stack |-> "err.stack"]
    ELSE [success |-> FALSE, error |-> "err.message"]

\* bin/quapp.js main().catch
QuappMainCatch ==
  /\ IsQuapp /\ pc \in {"runServe", "runBuild", "runInit"}
  /\ LET io1 == LogCall(IO, Call("console.error", "Unexpected error"))
         io2 == IF "--verbose" \in Range(argv)
                  THEN LogCall(io1, Call("console.error", "err.stack"))
                  ELSE io1
     IN SetIO(IF "--json" \in Range(argv)
                THEN ToStdout(io2, Json(FaultDocument))
                ELSE io2)
  /\ Exit(GENERAL_ERROR)
  /\ UNCHANGED <<parseVars, calls, config, result, disk, effects, cancelled>>

\* create-quapp main().catch
CreateMainCatch ==
  /\ prog = "create" /\ pc \in {"scaffold", "prompts", "validate", "clone"}
  /\ LET io1 == LogAll(IO, <<Call("error", "Unexpected error"),
                             Call("debug", "err.stack")>>)
     IN SetIO(IF "--json" \in Range(argv)
                THEN ToStdout(io1, Json(FaultDocument))
                ELSE io1)
  /\ Exit(GENERAL_ERROR)
  /\ UNCHANGED <<parseVars, calls, config, result, disk, effects, cancelled>>

FaultNext ==
  \/ Next
  \/ QuappMainCatch
  \/ CreateMainCatch

FaultSpec == Init /\ [][FaultNext]_vars

\* The run ended in main().catch: a handler was called, it returned no
\* result, and the exit was not the interrupt's.
Faulted ==
  /\ pc = "exit"
  /\ calls /= <<>>
  /\ result = null
  /\ ~cancelled

\* C22: a run that ended with an unexpected fault has exit code 1; when
\* --json was given, standard output carries exactly one JSON document, with
\* success = false and an error code; otherwise it carries no JSON document
\* and the error message went to standard error.
C22_UnexpectedFault ==
  Faulted =>
    /\ exitCode = Some(GENERAL_ERROR)
    /\ IF "--json" \in Range(argv)
         THEN /\ Len(JsonDocs) = 1
              /\ JsonDocs[1].body.success = FALSE
              /\ "errorCode" \in DOMAIN JsonDocs[1].body
         ELSE /\ Len(JsonDocs) = 0
              /\ Len(stderr) > 0

(***************************************************************************)
(* Interrupts.  create-quapp installs a SIGINT listener (Sigint above);    *)
(* bin/quapp.js and its handlers install none, so SIGINT has its default   *)
(* disposition there: the process is terminated, nothing more is written,  *)
(* and the invoking shell sees status 128 + 2.                             *)
(***************************************************************************)
QuappSigint ==
  /\ IsQuapp /\ pc \in {"runServe", "runBuild", "runInit"}
  /\ cancelled' = TRUE
  /\ Exit(USER_CANCELLED)
  /\ UNCHANGED <<parseVars, logger, stdout, stderr, calls, config, result,
                 disk, effects>>

InterruptNext ==
  \/ Next
  \/ QuappSigint

InterruptSpec == Init /\ [][InterruptNext]_vars

\* The run was ended by an interrupt while its handler was pending.
Interrupted ==
  /\ pc = "exit"
  /\ calls /= <<>>
  /\ result = null
  /\ cancelled

\* C23: a run interrupted while its handler is pending ends with exit code
\* 130, and with --json its standard output carries exactly one JSON
\* document, which has cancelled: true; in the scaffolder and in the dev tool.
C23_InterruptDuringRun ==
  Interrupted =>
    /\ exitCode = Some(USER_CANCELLED)
    /\ (args.json =>
          /\ Len(JsonDocs) = 1
          /\ "cancelled" \in DOMAIN JsonDocs[1].body
          /\ JsonDocs[1].body.cancelled = TRUE)

\* C24: in a scaffolder run without --yes that reaches the clone, a git
\* (install) setting that no flag gave has been answered in the prompts: the
\* configuration the clone starts from holds the answer.
C24_UndefinedMeansAsk ==
  (prog = "create" /\ pc = "clone" /\ ~args.yes) =>
    /\ (args.git = null => config[1].git /= null)
    /\ (args.install = null => config[1].install /= null)

\* C25: when scaffold finds the target directory non-empty and force is not
\* set, it returns DIR_NOT_EMPTY at once, in a dry run too, with nothing
\* cloned, written or executed; the run then exits with code 1.
C25_NoOverwriteWithoutForce ==
  [][ prog = "create" =>
        /\ ((/\ pc = "validate"
             /\ disk' /= null
             /\ disk'[1].dir = "nonempty"
             /\ ~args.force) =>
              /\ pc' = "mainResult"
              /\ result' /= null
              /\ "errorCode" \in DOMAIN result'[1]
              /\ result'[1].errorCode = "DIR_NOT_EMPTY"
              /\ result'[1].exitCode = GENERAL_ERROR
              /\ effects' = <<>>)
        /\ ((/\ pc' = "exit"
             /\ result /= null
             /\ "errorCode" \in DOMAIN result[1]
             /\ result[1].errorCode = "DIR_NOT_EMPTY") =>
              /\ exitCode' = Some(GENERAL_ERROR)
              /\ effects' = <<>>
              /\ disk' = disk) ]_vars

\* A dry run over a non-empty directory, without --force, was refused.
C25_Witness ==
  /\ prog = "create" /\ pc = "exit"
  /\ args.dryRun /\ ~args.force
  /\ disk /= null /\ disk[1].dir = "nonempty"
  /\ result /= null /\ "errorCode" \in DOMAIN result[1]
  /\ result[1].errorCode = "DIR_NOT_EMPTY"
  /\ exitCode = Some(GENERAL_ERROR)
  /\ effects = <<>>

\* The effects of runBuild's five steps, in the order the claim gives them
\* (the dist-directory check reads only).
BuildPipeline ==
  << Effect("exec", "npm run build"), Effect("write", "dist/manifest.json"),
     Effect("write", "archive.qpp"), Effect("rm", "dist") >>

IsPrefix(s, t) == Len(s) <= Len(t) /\ \A n \in DOMAIN s : s[n] = t[n]

\* What runBuild did after package.json was settled.
BuildEffects == SelectSeq(effects, LAMBDA f : f.target /= "package.json")

BuildReturned ==
  IsQuapp /\ calls /= <<>> /\ calls[1].handler = "runBuild" /\ result /= null

\* C26: the steps runBuild performed are an initial part of build script,
\* manifest write, archive creation, dist cleanup, in that order; a failure
\* at a step leaves every later step undone; the dist directory is removed
\* only after the archive was created and only when clean is not false.
C26_BuildPipelineOrder ==
  BuildReturned =>
    LET fx == BuildEffects
        r == result[1]
    IN /\ IsPrefix(fx, BuildPipeline)
       /\ (~r.success =>
             Len(fx) = CASE r.error \in {"Build failed", "Build output not found",
                                         "Failed to write manifest"} -> 1
                         [] r.error = "Compression failed" -> 2
                         [] OTHER -> 0)
       /\ (r.success => Len(fx) >= 3)
       /\ (Options.clean = FALSE => Len(fx) <= 3)

\* A build with --no-clean succeeded: the archive exists, dist was kept.
C26_Witness ==
  /\ BuildReturned /\ pc = "exit"
  /\ args.clean = FALSE
  /\ result[1].success
  /\ BuildEffects = SubSeq(BuildPipeline, 1, 3)

C28_JsonModeAgreement ==
  (Parsed /\ prog \in {"quapp", "create"}) =>
    (args.json <=> "--json" \in Range(argv))

====
